---- MODULE Spec2Model ----
(***************************************************************************)
(* vibe-llama docuflows: the diff-based editing workflow                   *)
(* (docuflows/editing/__init__.py) and the interactive session workflow    *)
(* (docuflows/agent/__init__.py with its handlers and docuflows/cli.py).   *)
(*                                                                         *)
(* Text is a sequence of one-character strings.  Python's None for a text  *)
(* field is the one-element sequence None, which no text over Alphabet     *)
(* equals.                                                                 *)
(***************************************************************************)
EXTENDS Integers, Sequences, FiniteSets, TLC

VARIABLES
    estate,     \* EditSessionState: the store of the DiffEditingWorkflow
    eev,        \* the event in flight inside the DiffEditingWorkflow
    calls,      \* tally of the capability calls (Proposer / Verifier) of the run
    wstate,     \* WorkflowState: the store of the LlamaVibeWorkflow session
    config_file,\* .ai_agent_config.json as last saved (AgentConfig.save_to_file)
    request,    \* the InputRequiredEvent that awaited a reply when hev was sent
    hev,        \* the StartEvent / HumanResponseEvent handed to the steps
    via,        \* who sent hev: "run_cli" or "send_event"
    handled,    \* the steps that took hev past their guard
    emitted,    \* the events the steps returned since hev was sent
    tool_ev,    \* the ToolCallsEvent in flight
    edit_call,  \* the handle_edit_workflow call awaiting its sub-workflow
    turns,      \* number of HumanResponseEvents sent so far
    sends,      \* number of them a client built itself
    flow        \* a run of a template workflow (EmailFlow, WebScrapeWorkflow)

evars == <<estate, eev, calls>>

svars == <<wstate, config_file, request, hev, via, handled, emitted,
           tool_ev, edit_call, turns, sends, flow>>

vars == <<estate, eev, calls, wstate, config_file, request, hev, via,
          handled, emitted, tool_ev, edit_call, turns, sends, flow>>

(***************************************************************************)
(* Bounds and input sets                                                   *)
(***************************************************************************)
\* largest max_iterations a stand-alone edit run is started with
MaxIterations == 3

Alphabet == {"a", "b"}

None == <<"None">>

\* artifacts an edit run is started on
InitCodes == {<<>>, <<"a">>, <<"a", "b">>, <<"a", "b", "a">>}

UserRequest == <<"user_request">>

(***************************************************************************)
(* Text operations (str.__contains__, str.replace(old, new, 1), slicing)   *)
(***************************************************************************)
OccursAt(s, t, i) ==
    /\ i >= 1
    /\ i + Len(t) - 1 <= Len(s)
    /\ SubSeq(s, i, i + Len(t) - 1) = t

\* s.startswith(t) in the place of `t in s`
ContainsAtStart(s, t) == OccursAt(s, t, 1)

\* a search that never finds the empty text
ContainsNonEmpty(s, t) == t # <<>> /\ \E i \in 1..(Len(s) + 1) : OccursAt(s, t, i)

\* `t in s`: the empty text occurs in every text
Contains(s, t) == \E i \in 1..(Len(s) + 1) : OccursAt(s, t, i)

FirstIndex(s, t) ==
    CHOOSE i \in 1..(Len(s) + 1) :
        /\ OccursAt(s, t, i)
        /\ \A j \in 1..(i - 1) : ~OccursAt(s, t, j)

\* s.replace(old, new): every occurrence, left to right
RECURSIVE ReplaceEvery(_, _, _)
ReplaceEvery(s, old, new) ==
    IF old = <<>> \/ ~Contains(s, old) THEN s
    ELSE LET i == FirstIndex(s, old)
         IN  SubSeq(s, 1, i - 1) \o new
                \o ReplaceEvery(SubSeq(s, i + Len(old), Len(s)), old, new)

\* s.replace(old, new, 1)
ReplaceFirst(s, old, new) ==
    IF ~Contains(s, old) THEN s
    ELSE LET i == FirstIndex(s, old)
         IN  SubSeq(s, 1, i - 1) \o new \o SubSeq(s, i + Len(old), Len(s))

PreviewLen == 200

\* ev.updated_code[:200] + "..." if len(ev.updated_code) > 200 else ev.updated_code
ResultPreview(code) ==
    IF Len(code) > PreviewLen
    THEN SubSeq(code, 1, PreviewLen) \o <<".", ".", ".">>
    ELSE code

(***************************************************************************)
(* Data model of the editing workflow                                      *)
(***************************************************************************)
CodeDiff(old, new) == [old_text |-> old, new_text |-> new, reason |-> "reason"]

DiffPlan(diffs, summary) == [diffs |-> diffs, summary |-> summary]

ValidationResult(valid, issues, suggestions) ==
    [is_valid |-> valid, issues_found |-> issues, suggestions |-> suggestions]

\* the plans the Proposer capability may answer with
ProposerPlans ==
    { DiffPlan(<<>>, "no changes"),
      DiffPlan(<<CodeDiff(<<"b", "b">>, <<"a">>), CodeDiff(<<"a">>, <<"a", "b">>)>>,
               "two ops") }

\* outcome of llm.astructured_predict(DiffPlan, ...): a plan, or an exception
ProposerOutcomes ==
    { [raised |-> FALSE, plan |-> p] : p \in ProposerPlans }
        \cup { [raised |-> TRUE, plan |-> DiffPlan(<<>>, "")] }

\* the verdicts the Verifier capability may answer with
VerifierResults ==
    { ValidationResult(TRUE, <<>>, <<>>),
      ValidationResult(FALSE, <<"issue">>, <<"suggestion">>) }

\* outcome of llm.astructured_predict(ValidationResult, ...)
VerifierOutcomes ==
    { [raised |-> FALSE, result |-> v] : v \in VerifierResults }
        \cup { [raised |-> TRUE, result |-> ValidationResult(TRUE, <<>>, <<>>)] }

NoEvent == [type |-> "NoEvent"]

EditRequest(code, edit_request, context, maxit) ==
    [type |-> "EditRequest", current_workflow |-> code, edit_request |-> edit_request,
     context_str |-> context, max_iterations |-> maxit]

DiffGenerated(plan, iteration) ==
    [type |-> "DiffGenerated", diff_plan |-> plan, iteration |-> iteration]

DiffsApplied(code, changes, iteration) ==
    [type |-> "DiffsApplied", updated_code |-> code, applied_changes |-> changes,
     iteration |-> iteration]

ValidationCompleted(validation, code, iteration) ==
    [type |-> "ValidationCompleted", validation |-> validation,
     current_code |-> code, iteration |-> iteration]

\* a result that leaves the history out
EditCompletedWithoutHistory(code, history, iterations) ==
    [type |-> "EditCompleted", final_code |-> code, edit_history |-> <<>>,
     total_iterations |-> iterations]

EditCompleted(code, history, iterations) ==
    [type |-> "EditCompleted", final_code |-> code, edit_history |-> history,
     total_iterations |-> iterations]

\* EditSessionState as pydantic constructs it (max_iterations None is 0 here)
EditSessionState0 ==
    [current_code |-> None, original_request |-> None, context_str |-> None,
     max_iterations |-> 0, edit_history |-> <<>>, iteration |-> 1]

(***************************************************************************)
(* DiffEditingWorkflow                                                     *)
(***************************************************************************)
\* a Proposer call whose exception ends the run
GenerateDiffPlanOrStop(outcome, iteration) ==
    IF outcome.raised
    THEN EditCompleted(estate.current_code, estate.edit_history, iteration)
    ELSE DiffGenerated(outcome.plan, iteration)

\* _generate_diff_plan: the Proposer call with its except-fallback
GenerateDiffPlan(outcome, iteration) ==
    IF outcome.raised
    THEN DiffGenerated(DiffPlan(<<>>, "Error generating diffs"), iteration)
    ELSE DiffGenerated(outcome.plan, iteration)

\* no capability was called yet
NoCalls ==
    [propose |-> 0, verify |-> 0, valid_verdicts |-> 0,
     propose_raised |-> FALSE, verify_raised |-> FALSE,
     propose_raises |-> 0, verify_raises |-> 0,
     proposed |-> <<>>, verified |-> <<>>]

\* llm.astructured_predict(DiffPlan, ..., current_code=, edit_request=) was
\* called, with this outcome
ProposeCall(log, outcome, current_code, edit_request) ==
    [log EXCEPT !.propose = @ + 1,
                !.proposed = Append(@, [current_code |-> current_code,
                                        edit_request |-> edit_request]),
                !.propose_raised = @ \/ outcome.raised,
                !.propose_raises = IF outcome.raised THEN @ + 1 ELSE @]

\* llm.astructured_predict(ValidationResult, ..., code=, edit_request=) was
\* called, with this outcome
VerifyCall(log, outcome, code, edit_request) ==
    [log EXCEPT !.verify = @ + 1,
                !.verified = Append(@, [code |-> code,
                                        edit_request |-> edit_request]),
                !.valid_verdicts = IF ~outcome.raised /\ outcome.result.is_valid
                                   THEN @ + 1 ELSE @,
                !.verify_raised = @ \/ outcome.raised,
                !.verify_raises = IF outcome.raised THEN @ + 1 ELSE @]

\* start_editing, the first Proposer call answering one of `outcomes`
StartEditing(outcomes) ==
    /\ eev.type = "EditRequest"
    /\ \E outcome \in outcomes :
        LET st == [current_code |-> eev.current_workflow,
                   original_request |-> eev.edit_request,
                   context_str |-> eev.context_str,
                   max_iterations |-> eev.max_iterations,
                   edit_history |-> <<>>,
                   iteration |-> 1]
        IN  /\ estate' = st
            /\ calls' = ProposeCall(calls, outcome, st.current_code, eev.edit_request)
            /\ eev' = GenerateDiffPlan(outcome, 1)
    /\ UNCHANGED svars

start_editing == StartEditing(ProposerOutcomes)

FailedChange(diff) ==
    [reason |-> diff.reason, old_text |-> diff.old_text, new_text |-> diff.new_text,
     success |-> FALSE, error |-> "Text not found"]

AppliedChange(diff) ==
    [reason |-> diff.reason, old_text |-> diff.old_text, new_text |-> diff.new_text,
     success |-> TRUE]

\* a loop that breaks at the first replacement whose old_text is not found
RECURSIVE ApplyUntilFailure(_, _, _)
ApplyUntilFailure(working_code, diffs, applied_changes) ==
    IF diffs = <<>>
    THEN [working_code |-> working_code, applied_changes |-> applied_changes]
    ELSE LET diff == Head(diffs)
         IN  IF ~Contains(working_code, diff.old_text)
             THEN [working_code |-> working_code,
                   applied_changes |-> Append(applied_changes, FailedChange(diff))]
             ELSE ApplyUntilFailure(ReplaceFirst(working_code, diff.old_text, diff.new_text),
                                    Tail(diffs),
                                    Append(applied_changes, AppliedChange(diff)))

\* a loop in which a replacement that is not found still leaves its new_text
\* in the working copy
RECURSIVE ApplyLoopInsertingUnfound(_, _, _)
ApplyLoopInsertingUnfound(working_code, diffs, applied_changes) ==
    IF diffs = <<>>
    THEN [working_code |-> working_code, applied_changes |-> applied_changes]
    ELSE LET diff == Head(diffs)
         IN  IF ~Contains(working_code, diff.old_text)
             THEN ApplyLoopInsertingUnfound(diff.new_text \o working_code, Tail(diffs),
                                            Append(applied_changes, FailedChange(diff)))
             ELSE ApplyLoopInsertingUnfound(
                        ReplaceFirst(working_code, diff.old_text, diff.new_text),
                        Tail(diffs), Append(applied_changes, AppliedChange(diff)))

\* the for-loop of apply_diffs over ev.diff_plan.diffs
RECURSIVE ApplyLoop(_, _, _)
ApplyLoop(working_code, diffs, applied_changes) ==
    IF diffs = <<>>
    THEN [working_code |-> working_code, applied_changes |-> applied_changes]
    ELSE LET diff == Head(diffs)
         IN  IF ~Contains(working_code, diff.old_text)
             THEN ApplyLoop(working_code, Tail(diffs),
                            Append(applied_changes, FailedChange(diff)))
             ELSE ApplyLoop(ReplaceFirst(working_code, diff.old_text, diff.new_text),
                            Tail(diffs),
                            Append(applied_changes, AppliedChange(diff)))

\* an APPLY that takes an empty plan as the end of the iteration: no VALIDATE
apply_diffs_skipping_validation ==
    /\ eev.type = "DiffGenerated"
    /\ IF eev.diff_plan.diffs = <<>>
       THEN /\ eev' = ValidationCompleted(ValidationResult(TRUE, <<>>, <<>>),
                                          estate.current_code, eev.iteration)
            /\ UNCHANGED estate
       ELSE LET r == ApplyLoop(estate.current_code, eev.diff_plan.diffs, <<>>)
            IN  /\ estate' = [estate EXCEPT !.current_code = r.working_code]
                /\ eev' = DiffsApplied(r.working_code, r.applied_changes, eev.iteration)
    /\ UNCHANGED calls
    /\ UNCHANGED svars

apply_diffs ==
    /\ eev.type = "DiffGenerated"
    /\ IF eev.diff_plan.diffs = <<>>
       THEN /\ eev' = DiffsApplied(estate.current_code, <<>>, eev.iteration)
            /\ UNCHANGED estate
       ELSE LET r == ApplyLoop(estate.current_code, eev.diff_plan.diffs, <<>>)
            IN  /\ estate' = [estate EXCEPT !.current_code = r.working_code]
                /\ eev' = DiffsApplied(r.working_code, r.applied_changes, eev.iteration)
    /\ UNCHANGED calls
    /\ UNCHANGED svars

HistoryEntry(st, ev) ==
    [iteration |-> ev.iteration,
     request |-> IF ev.iteration = 1 THEN st.original_request
                 ELSE <<"Refinement based on validation">>,
     applied_changes |-> ev.applied_changes,
     result_preview |-> ResultPreview(ev.updated_code)]

\* a Verifier call whose exception counts as an invalid verdict
ValidateCodePessimistic(outcome) ==
    IF outcome.raised
    THEN ValidationResult(FALSE, <<"Validation error">>, <<>>)
    ELSE outcome.result

\* _validate_code: the Verifier call with its except-fallback
ValidateCode(outcome) ==
    IF outcome.raised
    THEN ValidationResult(TRUE, <<"Validation error">>, <<>>)
    ELSE outcome.result

\* a VALIDATE that keeps only the entry of the iteration at hand
validate_code_overwriting_history ==
    /\ eev.type = "DiffsApplied"
    /\ \E outcome \in VerifierOutcomes :
        /\ estate' = [estate EXCEPT !.edit_history = <<HistoryEntry(estate, eev)>>]
        /\ calls' = VerifyCall(calls, outcome, eev.updated_code,
                               estate.original_request)
        /\ eev' = ValidationCompleted(ValidateCode(outcome), eev.updated_code,
                                      eev.iteration)
    /\ UNCHANGED svars

\* a VALIDATE that asks the Proposer for the next plan while the Verifier runs
validate_code_proposing_ahead ==
    /\ eev.type = "DiffsApplied"
    /\ \E outcome \in VerifierOutcomes, ahead \in ProposerOutcomes :
        /\ estate' = [estate EXCEPT
                        !.edit_history = Append(@, HistoryEntry(estate, eev))]
        /\ calls' = ProposeCall(VerifyCall(calls, outcome, eev.updated_code,
                                           estate.original_request),
                                ahead, estate.current_code, estate.original_request)
        /\ eev' = ValidationCompleted(ValidateCode(outcome), eev.updated_code,
                                      eev.iteration)
    /\ UNCHANGED svars

validate_code ==
    /\ eev.type = "DiffsApplied"
    /\ \E outcome \in VerifierOutcomes :
        /\ estate' = [estate EXCEPT
                        !.edit_history = Append(@, HistoryEntry(estate, eev))]
        /\ calls' = VerifyCall(calls, outcome, eev.updated_code,
                               estate.original_request)
        /\ eev' = ValidationCompleted(ValidateCode(outcome), eev.updated_code,
                                      eev.iteration)
    /\ UNCHANGED svars

\* a budget test that lets one cycle too many through
HasBudgetInclusive(iteration, max_iterations) == iteration <= max_iterations

\* a budget test that stops one cycle early
HasBudgetShort(iteration, max_iterations) == iteration + 1 < max_iterations

\* `ev.iteration < max_iterations`: another cycle is allowed
HasBudget(iteration, max_iterations) == iteration < max_iterations

\* a next cycle that asks for the user's request once more
original_request_again(validation) == estate.original_request

\* "Fix these issues: {issues_found}. Suggestions: {suggestions}"
new_edit_request(validation) ==
    <<"Fix these issues", validation.issues_found,
      "Suggestions", validation.suggestions>>

check_completion ==
    /\ eev.type = "ValidationCompleted"
    /\ IF eev.validation.is_valid
       THEN /\ eev' = EditCompleted(eev.current_code, estate.edit_history, eev.iteration)
            /\ UNCHANGED <<estate, calls>>
       ELSE IF HasBudget(eev.iteration, estate.max_iterations)
       THEN \E outcome \in ProposerOutcomes :
            LET next_iteration == eev.iteration + 1
                st == [estate EXCEPT !.iteration = next_iteration]
            IN  /\ estate' = st
                /\ calls' = ProposeCall(calls, outcome, st.current_code,
                                        new_edit_request(eev.validation))
                /\ eev' = GenerateDiffPlan(outcome, next_iteration)
       ELSE /\ eev' = EditCompleted(eev.current_code, estate.edit_history, eev.iteration)
            /\ UNCHANGED <<estate, calls>>
    /\ UNCHANGED svars

(***************************************************************************)
(* The session: LlamaVibeWorkflow, its handlers and the transport.         *)
(* Free text that the code only stores, compares or hands to a collaborator*)
(* (ids, paths, prompts, messages) is a string token; the prompt text of   *)
(* an InputRequiredEvent (prefix) is display only and is left out.         *)
(***************************************************************************)
\* number of HumanResponseEvents the transport sends in one behaviour
MaxTurns == 3

\* number of them that reach the chat LLM (free-text requests)
MaxChats == 2

\* number of them that a client builds itself, with a tag of its choice
MaxSends == 1

EmptyRec == [f \in {} |-> f]

\* hasattr(ev, name)
HasAttr(ev, name) == name \in DOMAIN ev

\* getattr(ev, name, default)
GetAttr(ev, name, default) == IF name \in DOMAIN ev THEN ev[name] ELSE default

\* `not s` for an Optional[str]
Falsy(s) == s \in {"None", ""}

InputRequiredEvent == [type |-> "InputRequiredEvent"]

TaggedInputRequired(tag) == [type |-> "InputRequiredEvent", tag |-> tag]

StopEvent == [type |-> "StopEvent"]

ToolCallsEvent(tool_calls, user_msg) ==
    [type |-> "ToolCallsEvent", tool_calls |-> tool_calls, user_msg |-> user_msg]

StartEvent == [type |-> "StartEvent"]

ChatMessage(role, content) == [role |-> role, content |-> content]

\* AgentConfig() with the field defaults
AgentConfig0 ==
    [project_id |-> "None", organization_id |-> "None",
     default_reference_files_path |-> "None",
     output_directory |-> "generated_workflows", current_model |-> "gpt-4.1"]

\* a configuration saved by an earlier run that was completed through /config
FullConfig ==
    [AgentConfig0 EXCEPT !.project_id = "uuid", !.organization_id = "uuid",
                         !.default_reference_files_path = "refs_dir"]

\* the configuration the first-run dialogue of handle_configuration leaves on
\* disk: it asks for the project id and the reference path only
FirstRunConfig ==
    [AgentConfig0 EXCEPT !.project_id = "uuid",
                         !.default_reference_files_path = "refs_dir"]

NoFile == [exists |-> FALSE]

SavedFile(config) == [exists |-> TRUE, data |-> config]

\* AgentConfig.load_from_file
load_from_file(file) == IF file.exists THEN file.data ELSE AgentConfig0

NoConfig == [is_none |-> TRUE]

NoCall == [active |-> FALSE]

\* no template workflow is run
FlowIdle == [template |-> "none"]

\* WorkflowState() with the field defaults
WorkflowState0 ==
    [config |-> NoConfig, app_state |-> "initializing", current_model |-> "None",
     chat_history |-> <<>>, edit_conversation_history |-> <<>>,
     current_workflow |-> None, current_workflow_path |-> "None",
     pending_workflow_edit |-> None, pending_workflow |-> <<>>,
     pending_runbook |-> "", current_runbook |-> "None",
     current_runbook_path |-> "None", pending_runbook_edit |-> "None",
     edit_session_history |-> None, handler_status_message |-> "None",
     generation_task |-> "", generation_reference_path |-> "",
     workflow_analysis_cache |-> [is_none |-> TRUE],
     workflow_analysis_cache_path |-> "None"]

SessionNotStarted ==
    /\ wstate = WorkflowState0
    /\ request = NoEvent
    /\ hev = NoEvent
    /\ via = "none"
    /\ handled = {}
    /\ emitted = <<>>
    /\ tool_ev = NoEvent
    /\ edit_call = NoCall
    /\ turns = 0
    /\ sends = 0
    /\ flow = FlowIdle

\* the steps of LlamaVibeWorkflow that accept a HumanResponseEvent: each of them
\* is handed every HumanResponseEvent
Steps ==
    { "handle_general_input", "handle_folder_name_input_step",
      "handle_load_workflow_input", "handle_test_file_selection_input",
      "handle_config_menu_input", "handle_config_edit_input",
      "handle_model_selection_input", "handle_review_diff_input",
      "handle_review_edit_input", "handle_test_workflow_input" }

(***************************************************************************)
(* Collaborators on text tokens                                            *)
(***************************************************************************)
\* str.strip() on the input tokens
Strip(s) == CASE s = " Quit " -> "Quit"
              [] s = " " -> ""
              [] OTHER -> s

\* str.lower() on the input tokens
Lower(s) == CASE s = "Quit" -> "quit"
              [] s = "Done" -> "done"
              [] OTHER -> s

\* str.startswith("/")
StartsWithSlash(s) == s \in {"/help", "/config", "/model", "/nope", "/data/file.pdf"}

\* tag.startswith("config_edit_")
StartsWithConfigEdit(tag) ==
    tag \in {"config_edit_project_id", "config_edit_org_id",
             "config_edit_output_dir", "config_edit_other"}

\* validate_uuid: the token "uuid" is a well-formed UUID, no other token is
validate_uuid(s) == s = "uuid"

\* validate_reference_path: the token "refs_dir" is an existing directory with files
validate_reference_path(s) == s = "refs_dir"

\* is_file_path
is_file_path(s) == s = "/data/file.pdf"

\* a handler's return: the store, the saved config file, the returned event
Ret(st, file, ev) == [state |-> st, file |-> file, result |-> ev]

(***************************************************************************)
(* Handlers reached from handle_general_input                              *)
(***************************************************************************)
handle_configuration(st, file, user_input) ==
    LET config == st.config
    IN  IF Falsy(config.project_id)
        THEN IF ~validate_uuid(user_input)
             THEN Ret(st, file, InputRequiredEvent)
             ELSE LET c == [config EXCEPT !.project_id = user_input]
                  IN  Ret([st EXCEPT !.config = c], SavedFile(c), InputRequiredEvent)
        ELSE IF config.project_id # "None"
                /\ Falsy(config.default_reference_files_path)
        THEN IF ~validate_reference_path(user_input)
             THEN Ret(st, file, InputRequiredEvent)
             ELSE LET c == [config EXCEPT !.default_reference_files_path = user_input]
                  IN  Ret([st EXCEPT !.config = c, !.app_state = "ready"],
                          SavedFile(c), InputRequiredEvent)
        ELSE Ret(st, file, NoEvent)     \* falls off the end: returns None

handle_slash_command(st, file, command0) ==
    LET command == Strip(Lower(command0))
    IN  CASE command = "/help" -> Ret(st, file, InputRequiredEvent)
          [] command = "/config" -> Ret(st, file, TaggedInputRequired("config_menu"))
          [] command = "/model" -> Ret(st, file, TaggedInputRequired("model_selection"))
          [] OTHER -> Ret(st, file, InputRequiredEvent)

handle_help(st, file) == Ret(st, file, InputRequiredEvent)

\* what llm.astream_chat_with_tools answers: text only, or one tool call
ToolCalls ==
    { [tool_name |-> "generate_workflow",
       tool_kwargs |-> [task |-> t[1], reference_files_path |-> t[2]]] :
         t \in {<<"", "">>, <<"task", "">>, <<"task", "bad_path">>, <<"task", "refs_dir">>} }
    \cup { [tool_name |-> "edit_workflow", tool_kwargs |-> [edit_request |-> r]] :
             r \in {"", "edit"} }
    \cup { [tool_name |-> "test_workflow", tool_kwargs |-> [test_file_path |-> p]] :
             p \in {"", "data_dir", "sample.pdf", "missing.pdf"} }
    \cup { [tool_name |-> "answer_question", tool_kwargs |-> [question |-> q]] :
             q \in {"", "question"} }
    \cup { [tool_name |-> "show_config", tool_kwargs |-> EmptyRec],
           [tool_name |-> "reconfigure", tool_kwargs |-> EmptyRec],
           [tool_name |-> "no_such_tool", tool_kwargs |-> EmptyRec] }
    \cup { [tool_name |-> "load_workflow", tool_kwargs |-> [workflow_path |-> p]] :
             p \in {"", "wf_dir"} }

ChatOutcomes ==
    { [tool_calls |-> <<>>, full_response |-> r] : r \in {"answer"} }
        \cup { [tool_calls |-> <<tc>>, full_response |-> ""] : tc \in ToolCalls }

handle_chat(st, file, user_input, outcome) ==
    LET chat_history == Append(st.chat_history, ChatMessage("user", user_input))
    IN  IF outcome.tool_calls # <<>>
        THEN Ret([st EXCEPT !.chat_history = chat_history], file,
                 ToolCallsEvent(outcome.tool_calls, user_input))
        ELSE Ret([st EXCEPT !.chat_history =
                        Append(chat_history,
                               ChatMessage("assistant", outcome.full_response))],
                 file, InputRequiredEvent)

QuitCommands == {"quit", "exit", "bye"}

\* the body of handle_general_input after its guard
GeneralInput(st, file, ev, outcome) ==
    LET user_input == Strip(ev.response)
    IN  IF st.app_state = "configuring"
        THEN handle_configuration(st, file, user_input)
        ELSE IF Lower(user_input) \in QuitCommands
        THEN Ret(st, file, StopEvent)
        ELSE IF StartsWithSlash(user_input) /\ ~is_file_path(user_input)
        THEN handle_slash_command(st, file, user_input)
        ELSE IF Lower(user_input) = "help"
        THEN handle_help(st, file)
        ELSE handle_chat(st, file, user_input, outcome)

(***************************************************************************)
(* Step plumbing.  A step opens with its guard: when the guard rejects the *)
(* event the step returns None at once, before it reads or writes          *)
(* anything, so its action is enabled only for the events its guard lets   *)
(* through.                                                                *)
(***************************************************************************)
\* a catch-all without its guard: it takes every event
GeneralIgnoresNothing(ev) == FALSE

\* a catch-all guard without the `ev.tag and` test: it ignores the empty tag
GeneralIgnoresEmptyTag(ev) == HasAttr(ev, "tag") /\ ev.tag # "general"

\* the early-return condition of the catch-all step
GeneralIgnores(ev) == HasAttr(ev, "tag") /\ ~Falsy(ev.tag) /\ ev.tag # "general"

\* the early-return conditions of the tag-specific steps (`A or B` reads B only
\* when A is false)
FolderNameIgnores(ev) == IF ~HasAttr(ev, "tag") THEN TRUE ELSE ev.tag # "folder_name_input"

LoadWorkflowIgnores(ev) == IF ~HasAttr(ev, "tag") THEN TRUE ELSE ev.tag # "load_workflow"

FileSelectionIgnores(ev) == IF ~HasAttr(ev, "tag") THEN TRUE ELSE ev.tag # "file_selection"

ConfigMenuIgnores(ev) == IF ~HasAttr(ev, "tag") THEN TRUE ELSE ev.tag # "config_menu"

ConfigEditIgnores(ev) ==
    IF Falsy(GetAttr(ev, "tag", "None")) THEN TRUE ELSE ~StartsWithConfigEdit(ev.tag)

ModelSelectionIgnores(ev) == IF ~HasAttr(ev, "tag") THEN TRUE ELSE ev.tag # "model_selection"

ReviewDiffIgnores(ev) ==
    IF ~HasAttr(ev, "tag") THEN TRUE ELSE ev.tag # "review_diff_conversational"

ReviewEditIgnores(ev) == IF ~HasAttr(ev, "tag") THEN TRUE ELSE ev.tag # "review_edit"

\* a guard that tests for a tag the engine never emits
TestWorkflowIgnoresTypo(ev) ==
    IF ~HasAttr(ev, "tag") THEN TRUE ELSE ev.tag # "test_file_input"

TestWorkflowIgnores(ev) == IF ~HasAttr(ev, "tag") THEN TRUE ELSE ev.tag # "test_workflow"

\* the step returns None from its guard
Ignores(step, ev) ==
    CASE step = "handle_general_input" -> GeneralIgnores(ev)
      [] step = "handle_folder_name_input_step" -> FolderNameIgnores(ev)
      [] step = "handle_load_workflow_input" -> LoadWorkflowIgnores(ev)
      [] step = "handle_test_file_selection_input" -> FileSelectionIgnores(ev)
      [] step = "handle_config_menu_input" -> ConfigMenuIgnores(ev)
      [] step = "handle_config_edit_input" -> ConfigEditIgnores(ev)
      [] step = "handle_model_selection_input" -> ModelSelectionIgnores(ev)
      [] step = "handle_review_diff_input" -> ReviewDiffIgnores(ev)
      [] step = "handle_review_edit_input" -> ReviewEditIgnores(ev)
      [] OTHER -> TestWorkflowIgnores(ev)

\* the step holds a HumanResponseEvent it has not taken yet
StepTurn(step) ==
    /\ hev.type = "HumanResponseEvent"
    /\ step \notin handled

\* the step ran its handler, which returned r
Return(step, r) ==
    /\ handled' = handled \cup {step}
    /\ wstate' = r.state
    /\ config_file' = r.file
    /\ emitted' = IF r.result.type \in {"NoEvent", "ToolCallsEvent"}
                  THEN emitted ELSE Append(emitted, r.result)
    /\ tool_ev' = IF r.result.type = "ToolCallsEvent" THEN r.result ELSE tool_ev
    /\ UNCHANGED <<request, hev, via, edit_call, turns, sends, estate, eev, calls, flow>>

setup ==
    /\ hev.type = "StartEvent"
    /\ "setup" \notin handled
    /\ LET config == load_from_file(config_file)
           st == [wstate EXCEPT !.config = config, !.chat_history = <<>>,
                                !.current_workflow = None,
                                !.current_workflow_path = "None",
                                !.current_model = config.current_model]
       IN  IF Falsy(config.project_id) \/ Falsy(config.organization_id)
           THEN Return("setup", Ret([st EXCEPT !.app_state = "configuring"],
                                    config_file, InputRequiredEvent))
           ELSE Return("setup", Ret([st EXCEPT !.app_state = "ready"],
                                    config_file, InputRequiredEvent))

handle_general_input ==
    /\ StepTurn("handle_general_input")
    /\ ~GeneralIgnores(hev)
    /\ \E outcome \in ChatOutcomes :
                Return("handle_general_input",
                       GeneralInput(wstate, config_file, hev, outcome))

(***************************************************************************)
(* Configuration menu, field editing, model selection                      *)
(***************************************************************************)
\* the body of handle_config_menu_input after its guard
ConfigMenuInput(st, file, ev) ==
    LET user_input == Lower(Strip(ev.response))
    IN  CASE user_input = "done" -> Ret(st, file, InputRequiredEvent)
          [] user_input = "reset" ->
                Ret([st EXCEPT !.config = AgentConfig0], SavedFile(AgentConfig0),
                    InputRequiredEvent)
          [] user_input = "1" -> Ret(st, file, TaggedInputRequired("config_edit_project_id"))
          [] user_input = "2" -> Ret(st, file, TaggedInputRequired("config_edit_org_id"))
          [] user_input = "3" -> Ret(st, file, TaggedInputRequired("config_edit_output_dir"))
          [] OTHER -> Ret(st, file, TaggedInputRequired("config_menu"))

\* field editing without the validate_uuid test: any non-empty text is stored
ConfigEditInputUnvalidated(st, file, ev) ==
    LET user_input == Strip(ev.response)
        field == CASE ev.tag = "config_edit_project_id" -> "project_id"
                   [] ev.tag = "config_edit_org_id" -> "organization_id"
                   [] OTHER -> "output_directory"
        c == [st.config EXCEPT ![field] = user_input]
    IN  IF ~Falsy(user_input)
        THEN handle_slash_command([st EXCEPT !.config = c], SavedFile(c), "/config")
        ELSE handle_slash_command(st, file, "/config")

\* the body of handle_config_edit_input after its guard
ConfigEditInput(st, file, ev) ==
    LET tag == ev.tag
        user_input == Strip(ev.response)
        config == st.config
        menu(c, f) == handle_slash_command([st EXCEPT !.config = c], f, "/config")
    IN  CASE tag = "config_edit_project_id" ->
                IF ~Falsy(user_input) /\ validate_uuid(user_input)
                THEN LET c == [config EXCEPT !.project_id = user_input]
                     IN  menu(c, SavedFile(c))
                ELSE menu(config, file)
          [] tag = "config_edit_org_id" ->
                IF ~Falsy(user_input) /\ validate_uuid(user_input)
                THEN LET c == [config EXCEPT !.organization_id = user_input]
                     IN  menu(c, SavedFile(c))
                ELSE menu(config, file)
          [] tag = "config_edit_output_dir" ->
                IF ~Falsy(user_input)
                THEN LET c == [config EXCEPT !.output_directory = user_input]
                     IN  menu(c, SavedFile(c))
                ELSE menu(config, file)
          [] OTHER -> Ret(st, file, InputRequiredEvent)

\* model_map, restricted to the choices among the input tokens
model_map == [k \in {"1", "8"} |->
                CASE k = "1" -> "gpt-5"
                  [] k = "8" -> "claude-sonnet-4-20250514"]

\* the body of handle_model_selection_input after its guard
ModelSelectionInput(st, file, ev) ==
    LET user_input == Lower(Strip(ev.response))
    IN  IF user_input = "cancel"
        THEN Ret(st, file, InputRequiredEvent)
        ELSE IF user_input \in DOMAIN model_map
        THEN LET new_model == model_map[user_input]
                 c == [st.config EXCEPT !.current_model = new_model]
             IN  Ret([st EXCEPT !.current_model = new_model, !.config = c],
                     SavedFile(c), InputRequiredEvent)
        ELSE Ret(st, file, TaggedInputRequired("model_selection"))

handle_config_menu_input ==
    /\ StepTurn("handle_config_menu_input")
    /\ ~ConfigMenuIgnores(hev)
    /\ Return("handle_config_menu_input", ConfigMenuInput(wstate, config_file, hev))

handle_config_edit_input ==
    /\ StepTurn("handle_config_edit_input")
    /\ ~ConfigEditIgnores(hev)
    /\ Return("handle_config_edit_input", ConfigEditInput(wstate, config_file, hev))

handle_model_selection_input ==
    /\ StepTurn("handle_model_selection_input")
    /\ ~ModelSelectionIgnores(hev)
    /\ Return("handle_model_selection_input",
                   ModelSelectionInput(wstate, config_file, hev))

(***************************************************************************)
(* Generation, loading, questions, configuration display                   *)
(***************************************************************************)
\* an exception that leaves the step: the workflow run fails
Exception == [type |-> "Exception"]

\* what generate_workflow / generate_runbook answer with
GeneratedCode == <<"a", "b">>

\* what open(cleaned_path).read() answers with
LoadedCode == <<"a">>

handle_generate_workflow(st, file, task, reference_files_path, raised) ==
    IF task = "" THEN Ret(st, file, InputRequiredEvent)
    ELSE IF reference_files_path = "" THEN Ret(st, file, InputRequiredEvent)
    ELSE IF ~validate_reference_path(reference_files_path)
    THEN Ret(st, file, InputRequiredEvent)
    ELSE IF raised
    THEN Ret([st EXCEPT !.handler_status_message = "Failed to generate workflow"],
             file, InputRequiredEvent)
    ELSE Ret([st EXCEPT !.current_workflow = GeneratedCode,
                        !.current_runbook = "runbook",
                        !.generation_task = task,
                        !.generation_reference_path = reference_files_path,
                        !.pending_workflow = GeneratedCode,
                        !.pending_runbook = "runbook",
                        !.handler_status_message = "Successfully generated workflow"],
             file,
             [type |-> "InputRequiredEvent", tag |-> "folder_name_input",
              default_folder_name |-> "task"])

\* save_workflow(pending_workflow, ...): f.write(None) raises TypeError when the
\* pending workflow was cleared
handle_folder_name_input(st, file) ==
    IF st.pending_workflow = None THEN Ret(st, file, Exception)
    ELSE
    Ret([st EXCEPT !.current_workflow = st.pending_workflow,
                   !.current_runbook = st.pending_runbook,
                   !.current_workflow_path = "workflow.py",
                   !.current_runbook_path = "runbook.md",
                   !.pending_workflow = None,
                   !.pending_runbook = "None",
                   !.handler_status_message = "Successfully saved workflow"],
        file, InputRequiredEvent)

\* os.listdir(".") filtered to workflow files
workflow_files == <<"generated_workflow.py">>

\* validate_workflow_path: the token "wf_dir" resolves to an existing workflow
validate_workflow_path(path) == path = "wf_dir"

LoadOutcomes == {"ok", "ok_no_runbook", "workflow_unreadable", "runbook_unreadable"}

handle_load_workflow(st, file, workflow_path, outcome) ==
    IF workflow_path = ""
    THEN Ret(st, file, [type |-> "InputRequiredEvent", tag |-> "load_workflow",
                        available_files |-> workflow_files])
    ELSE IF ~validate_workflow_path(workflow_path)
    THEN Ret(st, file, TaggedInputRequired("load_workflow"))
    ELSE LET loaded == [st EXCEPT !.current_workflow = LoadedCode,
                                  !.current_workflow_path = "wf_dir/workflow.py"]
             done(s) == [s EXCEPT !.handler_status_message = "Successfully loaded workflow"]
         IN  CASE outcome = "workflow_unreadable" -> Ret(st, file, InputRequiredEvent)
               [] outcome = "runbook_unreadable" -> Ret(loaded, file, InputRequiredEvent)
               [] outcome = "ok_no_runbook" -> Ret(done(loaded), file, InputRequiredEvent)
               [] OTHER ->
                    Ret(done([loaded EXCEPT !.current_runbook = "loaded runbook",
                                            !.current_runbook_path = "wf_dir/runbook.md"]),
                        file, InputRequiredEvent)

\* `not current_workflow` for the artifact text
NoCode(code) == code = None \/ code = <<>>

handle_answer_question(st, file, question, raised) ==
    IF NoCode(st.current_workflow) THEN Ret(st, file, InputRequiredEvent)
    ELSE IF question = "" THEN Ret(st, file, InputRequiredEvent)
    ELSE IF raised
    THEN Ret([st EXCEPT !.handler_status_message = "Failed to answer question"],
             file, InputRequiredEvent)
    ELSE Ret([st EXCEPT !.handler_status_message = "Answered question"],
             file, InputRequiredEvent)

handle_show_config(st, file) ==
    Ret([st EXCEPT !.handler_status_message = "Displayed current configuration settings."],
        file, InputRequiredEvent)

handle_reconfigure(st, file) ==
    Ret([st EXCEPT !.config = AgentConfig0, !.app_state = "configuring",
                   !.handler_status_message = "Reset configuration"],
        file, InputRequiredEvent)

handle_folder_name_input_step ==
    /\ StepTurn("handle_folder_name_input_step")
    /\ ~FolderNameIgnores(hev)
    /\ Return("handle_folder_name_input_step",
              handle_folder_name_input(wstate, config_file))

handle_load_workflow_input ==
    /\ StepTurn("handle_load_workflow_input")
    /\ ~LoadWorkflowIgnores(hev)
    /\ \E outcome \in LoadOutcomes :
                Return("handle_load_workflow_input",
                       handle_load_workflow(wstate, config_file, Strip(hev.response),
                                            outcome))

(***************************************************************************)
(* Testing                                                                 *)
(***************************************************************************)
\* os.path.isdir / os.path.exists / get_test_file_suggestions on the path tokens
IsDir(p) == p \in {"data_dir", "empty_dir"}

Exists(p) == p \in {"data_dir", "empty_dir", "sample.pdf", "data_dir/sample.pdf"}

get_test_file_suggestions(dir) ==
    IF dir = "data_dir" THEN <<"data_dir/sample.pdf">> ELSE <<>>

\* os.path.join(base_directory, user_input)
PathJoin(base, p) ==
    IF base = "data_dir" /\ p = "sample.pdf" THEN "data_dir/sample.pdf" ELSE "no such file"

\* the environment of one test: the workflow file, the analysis, the execution
TestEnvs ==
    [wf_exists : BOOLEAN, accepts_input_files : BOOLEAN,
     exec : {"venv_failed", "exit_0", "exit_1", "raised"}]

Analysis(flag) == [is_none |-> FALSE, accepts_input_files |-> flag]

NoAnalysis == [is_none |-> TRUE]

execute_workflow(st, file, env) ==
    LET cleared == [st EXCEPT !.workflow_analysis_cache = NoAnalysis,
                              !.workflow_analysis_cache_path = "None"]
    IN  CASE env.exec = "venv_failed" ->
                Ret([st EXCEPT !.handler_status_message = "Workflow testing failed (venv)"],
                    file, InputRequiredEvent)
          [] env.exec = "exit_0" ->
                Ret([cleared EXCEPT !.handler_status_message = "Successfully tested"],
                    file, InputRequiredEvent)
          [] env.exec = "exit_1" ->
                Ret([cleared EXCEPT !.handler_status_message = "Workflow testing failed"],
                    file, InputRequiredEvent)
          [] OTHER ->
                \* the subprocess raised: return_code is unbound at line 476
                Ret(cleared, file, Exception)

\* a validation that hands a directory without suitable files to the run
handle_test_file_validation_running(st, file, test_file_path, env) ==
    IF IsDir(test_file_path) /\ get_test_file_suggestions(test_file_path) # <<>>
    THEN Ret(st, file,
             [type |-> "InputRequiredEvent", tag |-> "file_selection",
              available_files |-> get_test_file_suggestions(test_file_path),
              base_directory |-> test_file_path])
    ELSE IF ~Exists(test_file_path)
    THEN Ret(st, file, TaggedInputRequired("test_workflow"))
    ELSE execute_workflow(st, file, env)

handle_test_file_validation(st, file, test_file_path, env) ==
    IF IsDir(test_file_path)
    THEN LET files_in_dir == get_test_file_suggestions(test_file_path)
         IN  IF files_in_dir = <<>>
             THEN Ret(st, file, TaggedInputRequired("test_workflow"))
             ELSE Ret(st, file,
                      [type |-> "InputRequiredEvent", tag |-> "file_selection",
                       available_files |-> files_in_dir,
                       base_directory |-> test_file_path])
    ELSE IF ~Exists(test_file_path)
    THEN Ret(st, file, TaggedInputRequired("test_workflow"))
    ELSE execute_workflow(st, file, env)

handle_test_workflow(st, file, test_file_path, env) ==
    IF NoCode(st.current_workflow) THEN Ret(st, file, InputRequiredEvent)
    ELSE IF Falsy(st.current_workflow_path) \/ ~env.wf_exists
    THEN Ret(st, file, InputRequiredEvent)
    ELSE LET cached == /\ ~st.workflow_analysis_cache.is_none
                       /\ st.workflow_analysis_cache_path = st.current_workflow_path
             analysis == IF cached THEN st.workflow_analysis_cache
                         ELSE Analysis(env.accepts_input_files)
             s1 == IF cached THEN st
                   ELSE [st EXCEPT !.workflow_analysis_cache = analysis,
                                   !.workflow_analysis_cache_path =
                                        st.current_workflow_path]
         IN  IF analysis.accepts_input_files /\ test_file_path = ""
             THEN Ret(s1, file, TaggedInputRequired("test_workflow"))
             ELSE IF test_file_path # ""
             THEN handle_test_file_validation(s1, file, test_file_path, env)
             ELSE execute_workflow(s1, file, env)

\* what the LLM names as the selected file
Selections == {"NO_MATCH", "sample.pdf", "other.txt"}

\* the four matching passes over available_files
Matches(file_path, selected_file) ==
    file_path = "data_dir/sample.pdf" /\ selected_file = "sample.pdf"

handle_test_file_selection(st, file, user_input, available_files, base_directory, selected_file, env) ==
    LET again == [type |-> "InputRequiredEvent", tag |-> "file_selection",
                  available_files |-> available_files,
                  base_directory |-> base_directory]
        matched == { i \in DOMAIN available_files :
                        Matches(available_files[i], selected_file) }
    IN  IF Strip(user_input) = "" THEN Ret(st, file, again)
        ELSE IF Exists(user_input)
        THEN handle_test_workflow(st, file, user_input, env)
        ELSE IF Exists(PathJoin(base_directory, user_input))
        THEN handle_test_workflow(st, file, PathJoin(base_directory, user_input), env)
        ELSE IF selected_file = "NO_MATCH" THEN Ret(st, file, again)
        ELSE IF matched # {}
        THEN handle_test_workflow(
                [st EXCEPT !.handler_status_message = "Selected file"], file,
                available_files[CHOOSE i \in matched : \A j \in matched : i <= j], env)
        ELSE Ret([st EXCEPT !.handler_status_message = "Could not locate file"],
                 file, again)

handle_test_file_selection_input ==
    /\ StepTurn("handle_test_file_selection_input")
    /\ ~FileSelectionIgnores(hev)
    /\ \E env \in TestEnvs, selected_file \in Selections :
                Return("handle_test_file_selection_input",
                       handle_test_file_selection(
                            wstate, config_file, Strip(hev.response),
                            GetAttr(hev, "available_files", <<>>),
                            GetAttr(hev, "base_directory", ""),
                            selected_file, env))

handle_test_workflow_input ==
    /\ StepTurn("handle_test_workflow_input")
    /\ ~TestWorkflowIgnores(hev)
    /\ \E env \in TestEnvs :
                Return("handle_test_workflow_input",
                       handle_test_workflow(wstate, config_file, Strip(hev.response), env))

(***************************************************************************)
(* Editing inside the session: handle_edit_workflow runs a                 *)
(* DiffEditingWorkflow with max_iterations = 3 and awaits its result.      *)
(***************************************************************************)
\* max_iterations=3 in the diff_workflow.run(...) of handle_edit_workflow
SessionMaxIterations == 3

\* what load_context_files finds: whether .vibe-llama/rules/AGENTS.md exists,
\* whether get_docs() generates it, whether it can be read.  The file is there
\* and readable, or missing and not generated, or there and unreadable
ContextEnvs ==
    { [exists |-> TRUE, generated |-> FALSE, readable |-> TRUE],
      [exists |-> FALSE, generated |-> FALSE, readable |-> FALSE],
      [exists |-> TRUE, generated |-> FALSE, readable |-> FALSE] }

\* the try-block of load_context_files: get_docs() or open() may raise
LoadContextBody(env) ==
    IF ~env.exists /\ ~env.generated THEN [raised |-> TRUE, value |-> None]
    ELSE IF ~env.readable THEN [raised |-> TRUE, value |-> None]
    ELSE [raised |-> FALSE, value |-> <<"context">>]

\* load_context_files without its except-branch
LoadContextUnguarded(env) == LoadContextBody(env)

\* load_context_files: the content, or the error text of its except-branch
load_context_files(env) ==
    LET body == LoadContextBody(env)
    IN  IF body.raised
        THEN [raised |-> FALSE, value |-> <<"Error loading context files">>]
        ELSE body

\* an edit that always starts from the active artifact
EditTargetCurrent(st) == st.current_workflow

\* the artifact handle_edit_workflow starts from
EditTarget(st) ==
    IF ~NoCode(st.pending_workflow_edit) THEN st.pending_workflow_edit
    ELSE st.current_workflow

\* an except-branch that gives the session up
EditFailedStops(st, file) ==
    Ret([st EXCEPT !.handler_status_message = "Failed to edit workflow"],
        file, StopEvent)

\* a handler without its except-branch: the exception leaves the step
EditFailedRaises(st, file) == Ret(st, file, Exception)

\* the except-branch of handle_edit_workflow
EditFailed(st, file) ==
    Ret([st EXCEPT !.handler_status_message = "Failed to edit workflow"],
        file, InputRequiredEvent)

\* a completion that installs the result as the active artifact at once
EditSucceededCommitting(st, file, edit_request, result) ==
    Ret([st EXCEPT !.current_workflow = result.final_code,
                   !.pending_workflow_edit = result.final_code,
                   !.edit_session_history = result.edit_history,
                   !.edit_conversation_history =
                        @ \o << ChatMessage("user", edit_request),
                                ChatMessage("assistant", "I applied iterations") >>,
                   !.handler_status_message = "Successfully edited workflow"],
        file, TaggedInputRequired("review_diff_conversational"))

\* handle_edit_workflow after `result = await handler`
EditSucceeded(st, file, edit_request, result) ==
    Ret([st EXCEPT !.pending_workflow_edit = result.final_code,
                   !.edit_session_history = result.edit_history,
                   !.edit_conversation_history =
                        @ \o << ChatMessage("user", edit_request),
                                ChatMessage("assistant", "I applied iterations") >>,
                   !.handler_status_message = "Successfully edited workflow"],
        file, TaggedInputRequired("review_diff_conversational"))

\* the tail of execute_tools: the handler's status message joins chat_history
\* as read before the handler ran
AppendStatus(chat_history, r) ==
    IF r.result.type = "Exception" THEN r
    ELSE IF ~Falsy(r.state.handler_status_message)
    THEN Ret([r.state EXCEPT
                !.chat_history =
                    Append(chat_history,
                           ChatMessage("assistant", r.state.handler_status_message)),
                !.handler_status_message = "None"],
             r.file, r.result)
    ELSE r

\* what the caller of a handler does with its return
Finish(caller, chat_history, r) ==
    IF caller = "execute_tools" THEN AppendStatus(chat_history, r) ELSE r

\* the caller's event is consumed and the handler's return is emitted
Deliver(caller, r) ==
    /\ wstate' = r.state
    /\ config_file' = r.file
    /\ emitted' = IF r.result.type = "NoEvent" THEN emitted
                  ELSE Append(emitted, r.result)
    /\ IF caller = "execute_tools"
       THEN /\ tool_ev' = NoEvent
            /\ UNCHANGED handled
       ELSE /\ handled' = handled \cup {caller}
            /\ UNCHANGED tool_ev
    /\ UNCHANGED <<request, hev, via, turns, sends, flow>>

\* handle_edit_workflow up to the start of the sub-workflow
BeginEdit(caller, st, chat_history, edit_request) ==
    IF NoCode(EditTarget(st)) \/ edit_request = ""
    THEN /\ Deliver(caller, Finish(caller, chat_history,
                                   Ret(st, config_file, InputRequiredEvent)))
         /\ UNCHANGED <<edit_call, estate, eev, calls>>
    ELSE \/ /\ Deliver(caller, Finish(caller, chat_history, EditFailed(st, config_file)))
            /\ UNCHANGED <<edit_call, estate, eev, calls>>
         \/ \E env \in ContextEnvs :
            LET context == load_context_files(env)
            IN  IF context.raised
                THEN /\ Deliver(caller, Finish(caller, chat_history,
                                               EditFailed(st, config_file)))
                     /\ edit_call' = [active |-> FALSE, caller |-> caller,
                                      context_env |-> env, started |-> FALSE]
                     /\ UNCHANGED <<estate, eev, calls>>
                ELSE /\ edit_call' = [active |-> TRUE, caller |-> caller,
                                      edit_request |-> edit_request,
                                      chat_history |-> chat_history,
                                      context_failed |-> context.value # <<"context">>,
                                      context_env |-> env, started |-> TRUE]
                     /\ eev' = EditRequest(EditTarget(st), <<edit_request>>,
                                           context.value, SessionMaxIterations)
                     /\ estate' = EditSessionState0
                     /\ calls' = NoCalls
                     /\ wstate' = st
                     /\ IF caller = "execute_tools"
                        THEN /\ tool_ev' = NoEvent
                             /\ UNCHANGED handled
                        ELSE /\ handled' = handled \cup {caller}
                             /\ UNCHANGED tool_ev
                     /\ UNCHANGED <<config_file, request, hev, via, emitted, turns,
                                    sends, flow>>

\* handle_edit_workflow from `result = await handler` to its return
handle_edit_workflow ==
    /\ edit_call.active
    /\ eev.type = "EditCompleted"
    /\ LET r == Finish(edit_call.caller, edit_call.chat_history,
                       EditSucceeded(wstate, config_file, edit_call.edit_request, eev))
       IN  /\ wstate' = r.state
           /\ config_file' = r.file
           /\ emitted' = Append(emitted, r.result)
    /\ edit_call' = [edit_call EXCEPT !.active = FALSE]
    /\ eev' = NoEvent
    /\ estate' = EditSessionState0
    /\ UNCHANGED <<calls, request, hev, via, handled, tool_ev, turns, sends, flow>>

handle_generate_runbook_after_diff(st, file, raised) ==
    IF NoCode(st.pending_workflow_edit) THEN Ret(st, file, InputRequiredEvent)
    ELSE IF raised
    THEN Ret([st EXCEPT !.pending_runbook_edit = st.current_runbook,
                        !.handler_status_message = "Failed to generate updated runbook"],
             file, TaggedInputRequired("review_edit"))
    ELSE Ret([st EXCEPT !.pending_runbook_edit = "updated runbook",
                        !.handler_status_message = "Generated updated runbook"],
             file, TaggedInputRequired("review_edit"))

\* what interpret_user_intent answers (the LLM's word, or the keyword fallback)
Intents == {"approve", "exit", "continue"}

handle_review_diff_input ==
    /\ StepTurn("handle_review_diff_input")
    /\ ~ReviewDiffIgnores(hev)
    /\ \E intent \in Intents, raised \in BOOLEAN :
            CASE intent = "approve" ->
                    Return("handle_review_diff_input",
                           handle_generate_runbook_after_diff(wstate, config_file, raised))
              [] intent = "exit" ->
                    Return("handle_review_diff_input",
                           Ret([wstate EXCEPT !.pending_workflow_edit = None,
                                              !.edit_session_history = None,
                                              !.edit_conversation_history = <<>>],
                               config_file, InputRequiredEvent))
              [] OTHER ->
                    IF NoCode(EditTarget(wstate))
                    THEN Return("handle_review_diff_input",
                                Ret(wstate, config_file, InputRequiredEvent))
                    ELSE BeginEdit("handle_review_diff_input", wstate,
                                   wstate.chat_history, Strip(hev.response))

ApprovalWords == {"y", "yes", "save", "ok"}

\* a review that commits on approval whether or not an edit is pending
ReviewEditInputCommittingAlways(st, file, ev) ==
    IF Lower(Strip(ev.response)) \in ApprovalWords
    THEN Ret([st EXCEPT
                !.current_workflow = st.pending_workflow_edit,
                !.current_runbook = IF Falsy(st.pending_runbook_edit)
                                    THEN "" ELSE st.pending_runbook_edit,
                !.pending_runbook_edit = "None",
                !.pending_workflow_edit = None,
                !.handler_status_message = "Successfully saved workflow edits"],
             file, InputRequiredEvent)
    ELSE Ret([st EXCEPT !.pending_runbook_edit = "None",
                        !.pending_workflow_edit = None],
             file, InputRequiredEvent)

\* the body of handle_review_edit_input after its guard
ReviewEditInput(st, file, ev) ==
    LET user_input == Lower(Strip(ev.response))
    IN  IF user_input \in ApprovalWords
        THEN IF ~NoCode(st.pending_workflow_edit)
             THEN Ret([st EXCEPT
                         !.current_workflow = st.pending_workflow_edit,
                         !.current_runbook = IF Falsy(st.pending_runbook_edit)
                                             THEN "" ELSE st.pending_runbook_edit,
                         !.pending_runbook_edit = "None",
                         !.pending_workflow_edit = None,
                         !.handler_status_message = "Successfully saved workflow edits"],
                      file, InputRequiredEvent)
             ELSE Ret(st, file, InputRequiredEvent)
        ELSE Ret([st EXCEPT !.pending_runbook_edit = "None",
                            !.pending_workflow_edit = None],
                 file, InputRequiredEvent)

handle_review_edit_input ==
    /\ StepTurn("handle_review_edit_input")
    /\ ~ReviewEditIgnores(hev)
    /\ Return("handle_review_edit_input", ReviewEditInput(wstate, config_file, hev))

(***************************************************************************)
(* execute_tools                                                           *)
(***************************************************************************)
\* the names create_agent_tools registers
ToolNames ==
    {"generate_workflow", "edit_workflow", "test_workflow", "answer_question",
     "show_config", "reconfigure", "load_workflow"}

\* the dispatch of execute_tools on result_data["action"], edit_workflow apart:
\* the handler's returns over the outcomes of its collaborators
Dispatch(st, file, tool_call) ==
    LET kw == tool_call.tool_kwargs
        name == tool_call.tool_name
    IN  CASE name = "generate_workflow" ->
                { handle_generate_workflow(st, file, kw.task, kw.reference_files_path,
                                           raised) : raised \in BOOLEAN }
          [] name = "test_workflow" ->
                { handle_test_workflow(st, file, kw.test_file_path, env) :
                    env \in TestEnvs }
          [] name = "answer_question" ->
                { handle_answer_question(st, file, kw.question, raised) :
                    raised \in BOOLEAN }
          [] name = "show_config" -> { handle_show_config(st, file) }
          [] name = "reconfigure" -> { handle_reconfigure(st, file) }
          [] OTHER ->
                { handle_load_workflow(st, file, kw.workflow_path, outcome) :
                    outcome \in LoadOutcomes }

execute_tools ==
    /\ tool_ev.type = "ToolCallsEvent"
    /\ LET tool_call == tool_ev.tool_calls[1]
           chat_history == wstate.chat_history
           st == [wstate EXCEPT !.handler_status_message = "None"]
       IN  IF tool_call.tool_name \notin ToolNames
           THEN /\ Deliver("execute_tools", Ret(wstate, config_file, InputRequiredEvent))
                /\ UNCHANGED <<edit_call, estate, eev, calls>>
           ELSE IF tool_call.tool_name = "edit_workflow"
           THEN BeginEdit("execute_tools", st, chat_history,
                          tool_call.tool_kwargs.edit_request)
           ELSE \E r \in Dispatch(st, config_file, tool_call) :
                /\ Deliver("execute_tools", AppendStatus(chat_history, r))
                /\ UNCHANGED <<edit_call, estate, eev, calls>>

(***************************************************************************)
(* The transports                                                          *)
(***************************************************************************)
\* every step has returned and no handler is still running
TurnDone ==
    /\ hev.type = "StartEvent" => "setup" \in handled
    /\ hev.type = "HumanResponseEvent" =>
            \A step \in Steps : step \in handled \/ Ignores(step, hev)
    /\ tool_ev = NoEvent
    /\ ~edit_call.active

\* the request the session is suspended on
Pending == emitted[Len(emitted)]

Suspended ==
    /\ TurnDone
    /\ emitted # <<>>
    /\ Pending.type = "InputRequiredEvent"

\* the free-text requests handle_chat has taken so far
ChatTurns(st) ==
    Cardinality({ i \in DOMAIN st.chat_history : st.chat_history[i].role = "user" })

\* what the user may type at an untagged prompt: commands; ids and paths while
\* the configuration is asked for; a free-text request
Typed(st) ==
    {"quit", " Quit ", "bye", "/config", "/model", "help"}
        \cup (IF st.app_state = "configuring" THEN {"uuid", "refs_dir", "hello"}
              ELSE IF ChatTurns(st) < MaxChats THEN {"hello"} ELSE {})

\* what the user may type at a prompt with this tag
ResponsesTo(tag) ==
    CASE tag = "config_menu" -> {"Done", "reset", "1", "2", "3", "x"}
      [] StartsWithConfigEdit(tag) -> {"uuid", "bad", ""}
      [] tag = "model_selection" -> {"1", "cancel", "x"}
      [] tag = "folder_name_input" -> {"", "my folder"}
      [] tag = "load_workflow" -> {"", "wf_dir", "bad_path"}
      [] tag = "file_selection" -> {"", "sample.pdf", "the pdf", "empty_dir"}
      [] tag = "test_workflow" -> {"", "data_dir", "empty_dir", "sample.pdf", "missing.pdf"}
      [] tag = "review_diff_conversational" -> {"yes", "more"}
      [] tag = "review_edit" -> {"y", "n"}
      [] OTHER -> Typed(wstate)

\* a transport that forgets the directory of a file selection
EchoedFieldsWithoutDirectory == {"available_files", "default_folder_name"}

\* the attributes run_cli copies from the request
EchoedFields == {"available_files", "base_directory", "default_folder_name"}

\* response_kwargs of run_cli for this request and this typed text
RunCliResponse(event, response) ==
    LET copied == { f \in EchoedFields : HasAttr(event, f) }
            \cup (IF HasAttr(event, "tag") /\ ~Falsy(event.tag) THEN {"tag"} ELSE {})
    IN  [f \in {"type", "response"} \cup copied |->
            CASE f = "type" -> "HumanResponseEvent"
              [] f = "response" -> response
              [] OTHER -> event[f]]

Deliverable(ev) ==
    /\ hev' = ev
    /\ handled' = {}
    /\ emitted' = <<>>
    /\ turns' = turns + 1
    /\ calls' = NoCalls
    /\ edit_call' = NoCall
    /\ UNCHANGED <<wstate, config_file, tool_ev, estate, eev, flow>>

\* run_cli: one HumanResponseEvent for the InputRequiredEvent read off the stream
run_cli ==
    /\ Suspended
    /\ turns < MaxTurns
    /\ \E response \in ResponsesTo(GetAttr(Pending, "tag", "None")) :
        /\ Deliverable(RunCliResponse(Pending, response))
        /\ request' = Pending
        /\ via' = "run_cli"
        /\ UNCHANGED sends

\* the tags a client may put on a HumanResponseEvent
ClientTags ==
    {"general", "", "folder_name_input", "load_workflow", "file_selection",
     "config_menu", "config_edit_project_id", "config_edit_org_id",
     "config_edit_output_dir", "config_edit_other", "model_selection",
     "review_diff_conversational", "review_edit", "test_workflow", "no_such_tag"}

\* what such a client sends under a tag
ClientResponses(tag) ==
    CASE tag \in {"general", ""} -> {"quit", "help"}
      [] tag = "config_menu" -> {"2"}
      [] StartsWithConfigEdit(tag) -> {"uuid"}
      [] tag = "model_selection" -> {"1"}
      [] tag = "folder_name_input" -> {"my folder"}
      [] tag = "load_workflow" -> {"wf_dir"}
      [] tag = "file_selection" -> {"sample.pdf"}
      [] tag = "test_workflow" -> {"sample.pdf"}
      [] tag = "review_diff_conversational" -> {"more"}
      [] tag = "review_edit" -> {"y"}
      [] OTHER -> {"hello"}

\* ctx.send_event by a client that builds the HumanResponseEvent itself
send_event ==
    /\ Suspended
    /\ turns < MaxTurns
    /\ sends < MaxSends
    /\ sends' = sends + 1
    /\ \E tag \in ClientTags :
       \E response \in ClientResponses(tag) :
        /\ Deliverable([type |-> "HumanResponseEvent", response |-> response,
                        tag |-> tag])
        /\ request' = Pending
        /\ via' = "send_event"

(***************************************************************************)
(* The session: workflow.run() under run_cli, or under a client            *)
(***************************************************************************)
Init ==
    /\ wstate = WorkflowState0
    /\ config_file \in {NoFile, SavedFile(FirstRunConfig), SavedFile(FullConfig)}
    /\ request = NoEvent
    /\ hev = StartEvent
    /\ via = "none"
    /\ handled = {}
    /\ emitted = <<>>
    /\ tool_ev = NoEvent
    /\ edit_call = NoCall
    /\ turns = 0
    /\ sends = 0
    /\ flow = FlowIdle
    /\ estate = EditSessionState0
    /\ eev = NoEvent
    /\ calls = NoCalls

Next ==
    \/ setup
    \/ run_cli
    \/ send_event
    \/ handle_general_input
    \/ handle_folder_name_input_step
    \/ handle_load_workflow_input
    \/ handle_test_file_selection_input
    \/ handle_config_menu_input
    \/ handle_config_edit_input
    \/ handle_model_selection_input
    \/ handle_review_diff_input
    \/ handle_review_edit_input
    \/ handle_test_workflow_input
    \/ execute_tools
    \/ handle_edit_workflow
    \/ start_editing
    \/ apply_diffs
    \/ validate_code
    \/ check_completion

Spec == Init /\ [][Next]_vars

(***************************************************************************)
(* The session taken up where a client has left the final review of an     *)
(* edit: a workflow was generated, the client asked at once for a           *)
(* refinement under the tag review_diff_conversational, the diff was        *)
(* approved and the runbook generated, and at the review_edit prompt the    *)
(* client sent an exit under that tag again.  The session is followed for   *)
(* MaxTurns - 1 further turns.                                              *)
(***************************************************************************)
InitReview ==
    /\ wstate = [WorkflowState0 EXCEPT
                    !.config = FullConfig,
                    !.app_state = "ready",
                    !.current_model = "gpt-4.1",
                    !.chat_history =
                        <<ChatMessage("user", "hello"),
                          ChatMessage("assistant", "Successfully generated workflow")>>,
                    !.current_workflow = <<"a", "b">>,
                    !.pending_workflow = <<"a", "b">>,
                    !.pending_runbook = "runbook",
                    !.current_runbook = "runbook",
                    !.pending_runbook_edit = "updated runbook",
                    !.handler_status_message = "Generated updated runbook",
                    !.generation_task = "task",
                    !.generation_reference_path = "refs_dir"]
    /\ config_file = SavedFile(FullConfig)
    /\ request = TaggedInputRequired("review_edit")
    /\ hev = [type |-> "HumanResponseEvent", tag |-> "review_diff_conversational",
              response |-> "more"]
    /\ via = "send_event"
    /\ handled = {"handle_review_diff_input"}
    /\ emitted = <<InputRequiredEvent>>
    /\ tool_ev = NoEvent
    /\ edit_call = NoCall
    /\ turns = 1
    /\ sends = 0
    /\ flow = FlowIdle
    /\ estate = EditSessionState0
    /\ eev = NoEvent
    /\ calls = NoCalls

NextReview ==
    \/ run_cli
    \/ send_event
    \/ handle_general_input
    \/ handle_folder_name_input_step
    \/ handle_load_workflow_input
    \/ handle_test_file_selection_input
    \/ handle_config_menu_input
    \/ handle_config_edit_input
    \/ handle_model_selection_input
    \/ handle_review_diff_input
    \/ handle_review_edit_input
    \/ handle_test_workflow_input
    \/ execute_tools
    \/ handle_edit_workflow
    \/ start_editing
    \/ apply_diffs
    \/ validate_code
    \/ check_completion

SpecReview == InitReview /\ [][NextReview]_vars

(***************************************************************************)
(* A stand-alone run of the DiffEditingWorkflow: diff_workflow.run(...)    *)
(* with any artifact and any max_iterations >= 1.                          *)
(***************************************************************************)
InitEdit ==
    /\ SessionNotStarted
    /\ config_file = NoFile
    /\ estate = EditSessionState0
    /\ calls = NoCalls
    /\ \E code \in InitCodes, maxit \in 1..MaxIterations :
         eev = EditRequest(code, UserRequest, <<"context">>, maxit)

NextEdit ==
    \/ start_editing
    \/ apply_diffs
    \/ validate_code
    \/ check_completion

SpecEdit == InitEdit /\ [][NextEdit]_vars

\* the workflow engine runs the step of every event that is in flight
SpecEditFair == SpecEdit /\ WF_vars(NextEdit)

(***************************************************************************)
(* One APPLY on any artifact and any plan: a run with max_iterations = 1   *)
(* whose Proposer answers any plan of at most MaxOps replacements.         *)
(***************************************************************************)
\* longest artifact of such a run
MaxCode == 3

\* largest number of replacements in a plan
MaxOps == 2

\* longest old_text of a replacement
MaxOld == 2

\* longest new_text of a replacement
MaxNew == 1

\* the texts over Alphabet of at most n characters
Texts(n) == UNION { [1..k -> Alphabet] : k \in 0..n }

\* any plan of at most MaxOps replacements
AnyPlans ==
    LET ops == { CodeDiff(old, new) : old \in Texts(MaxOld), new \in Texts(MaxNew) }
    IN  { DiffPlan(diffs, "plan") : diffs \in UNION { [1..k -> ops] : k \in 0..MaxOps } }

AnyProposerOutcomes ==
    { [raised |-> FALSE, plan |-> p] : p \in AnyPlans }
        \cup { [raised |-> TRUE, plan |-> DiffPlan(<<>>, "")] }

\* the caller of diff_workflow.run(current_workflow = code, ...): it keeps the
\* artifact it passed
Caller(code) == [active |-> FALSE, caller |-> "run", current_workflow |-> code]

InitApply ==
    /\ wstate = WorkflowState0
    /\ config_file = NoFile
    /\ request = NoEvent
    /\ hev = NoEvent
    /\ via = "none"
    /\ handled = {}
    /\ emitted = <<>>
    /\ tool_ev = NoEvent
    /\ turns = 0
    /\ sends = 0
    /\ flow = FlowIdle
    /\ estate = EditSessionState0
    /\ calls = NoCalls
    /\ \E code \in Texts(MaxCode) :
        /\ edit_call = Caller(code)
        /\ eev = EditRequest(code, UserRequest, <<"context">>, 1)

NextApply ==
    \/ StartEditing(AnyProposerOutcomes)
    \/ apply_diffs
    \/ validate_code
    \/ check_completion

SpecApply == InitApply /\ [][NextApply]_vars

(***************************************************************************)
(* Two runs on one artifact: a caller that runs the DiffEditingWorkflow,   *)
(* keeps the result and runs a new DiffEditingWorkflow on the artifact it  *)
(* started from (handle_edit_workflow called twice on one current_workflow)*)
(***************************************************************************)
\* the caller before its first run: it holds the artifact and no result yet
Rerunner(code) ==
    [active |-> FALSE, caller |-> "rerun", current_workflow |-> code, first |-> NoEvent]

\* a caller that passes on the artifact as the run in flight has edited it
RunArtifactEdited(call) == eev.final_code

\* current_workflow = current_workflow of diff_workflow.run(...)
RunArtifact(call) == call.current_workflow

\* the second run: a new workflow with a new store
rerun ==
    /\ eev.type = "EditCompleted"
    /\ edit_call.first = NoEvent
    /\ edit_call' = [edit_call EXCEPT !.first = eev]
    /\ eev' = EditRequest(RunArtifact(edit_call), UserRequest, <<"context">>, 1)
    /\ estate' = EditSessionState0
    /\ calls' = NoCalls
    /\ UNCHANGED <<wstate, config_file, request, hev, via, handled, emitted,
                   tool_ev, turns, sends, flow>>

InitRerun ==
    /\ wstate = WorkflowState0
    /\ config_file = NoFile
    /\ request = NoEvent
    /\ hev = NoEvent
    /\ via = "none"
    /\ handled = {}
    /\ emitted = <<>>
    /\ tool_ev = NoEvent
    /\ turns = 0
    /\ sends = 0
    /\ flow = FlowIdle
    /\ estate = EditSessionState0
    /\ calls = NoCalls
    /\ \E code \in Texts(MaxCode) :
        /\ edit_call = Rerunner(code)
        /\ eev = EditRequest(code, UserRequest, <<"context">>, 1)

NextRerun ==
    \/ start_editing
    \/ apply_diffs
    \/ validate_code
    \/ check_completion
    \/ rerun

SpecRerun == InitRerun /\ [][NextRerun]_vars

(***************************************************************************)
(* The template workflows with fan-out and fan-in: WebScrapeWorkflow       *)
(* (templates/web_scraping/workflow.py) and EmailFlow                      *)
(* (templates/base_example/workflow.py).  One StartEvent fans out one      *)
(* sub-task per url / receiver; a collecting step gathers their results.   *)
(* The store (edit_state, get_state) and the collector (collect_events)    *)
(* belong to the workflows package, whose code the repository does not     *)
(* hold: they follow sections 4.4 and 4.5 of the specification.            *)
(***************************************************************************)
\* largest number of urls / receivers of a StartEvent
MaxTasks == 3

\* URLState() with the field defaults
URLState0 == [processed_urls |-> 0, final_content |-> <<>>]

\* EmailFlowState() with the field defaults
EmailFlowState0 == [email_num |-> 0, email_client |-> "None"]

\* StopEvent(result=...)
StopEventWith(result) == [type |-> "StopEvent", result |-> result]

\* the run as workflow.run(...) starts it: the StartEvent in flight, the store
\* as constructed, no transaction open, nothing collected
Flow0(template, start, store) ==
    [template |-> template, start |-> start, pc |-> "start", store |-> store,
     lock |-> 0, view |-> store,
     tasks |-> [i \in 1..MaxTasks |-> [pc |-> "none"]],
     buffer |-> <<>>, returns |-> <<>>, result |-> NoEvent,
     stats |-> [success |-> 0, fail |-> 0], failed |-> FALSE]

\* `async with ctx.store.edit_state() as state` is entered by `who`: it waits
\* for the transaction that is open, then holds an editable view of the state
EditState(f, who) == [f EXCEPT !.lock = who, !.view = f.store]

\* the scope is left: the view as the body left it replaces the stored state
CommitState(f, view) == [f EXCEPT !.store = view, !.lock = 0]

\* ctx.collect_events(ev, [T] * n): ev joins the events held for the trigger;
\* they are handed out (and the buffer emptied) once n are held, None before
CollectEvents(buffer, ev, n) ==
    LET held == Append(buffer, ev)
    IN  IF Len(held) = n
        THEN [events |-> held, buffer |-> <<>>]
        ELSE [events |-> <<>>, buffer |-> held]

\* the run goes on: no step raised and no StopEvent ended it
Running(template) ==
    /\ flow.template = template
    /\ ~flow.failed
    /\ flow.result = NoEvent

\* the sub-tasks of a StartEvent with n urls / receivers, their events in flight
FanOut(n) == [i \in 1..MaxTasks |-> IF i <= n THEN [pc |-> "queued"] ELSE [pc |-> "none"]]

(***************************************************************************)
(* WebScrapeWorkflow                                                       *)
(***************************************************************************)
process_urls ==
    /\ Running("WebScrapeWorkflow")
    /\ flow.pc = "start"
    /\ LET n == flow.start.n
           opened == EditState(flow, MaxTasks + 1)
           state == [opened.view EXCEPT !.processed_urls = n]
       IN  flow' = [CommitState(opened, state) EXCEPT !.pc = "running",
                                                      !.tasks = FanOut(n)]
    /\ UNCHANGED <<evars, wstate, config_file, request, hev, via, handled, emitted,
                   tool_ev, edit_call, turns, sends>>

\* state.final_content = f"..." in the place of +=
SetSection(state, url, content) ==
    [state EXCEPT !.final_content = <<[url |-> url, content |-> content]>>]

\* state.final_content += f"### Summary for {ev.url}\n\n{content}\n\n"
AppendSection(state, url, content) ==
    [state EXCEPT !.final_content = Append(@, [url |-> url, content |-> content])]

\* get_url_content for the URLReadEvent of url i: llm.chat answers or raises,
\* then the step enters its edit_state block; in a second step it appends its
\* section, leaves the block and returns its URLContentEvent
get_url_content ==
    /\ Running("WebScrapeWorkflow")
    /\ \E i \in 1..MaxTasks :
        \/ /\ flow.tasks[i].pc = "queued"
           /\ \E outcome \in {"raised", "", "summary"} :
                IF outcome = "raised"
                THEN flow' = [flow EXCEPT !.failed = TRUE]
                ELSE /\ flow.lock = 0
                     /\ flow' = [EditState(flow, i) EXCEPT
                                    !.tasks[i] = [pc |-> "editing", content |-> outcome]]
        \/ /\ flow.tasks[i].pc = "editing"
           /\ flow.lock = i
           /\ LET content == flow.tasks[i].content
                  state == AppendSection(flow.view, i, content)
              IN  flow' = [CommitState(flow, state) EXCEPT
                              !.tasks[i] = [pc |-> "returned",
                                            ev |-> [type |-> "URLContentEvent",
                                                    content |-> content]]]
    /\ UNCHANGED <<evars, wstate, config_file, request, hev, via, handled, emitted,
                   tool_ev, edit_call, turns, sends>>

\* a collecting step without its `if events:` test
ReleaseAlways(events, result) == StopEventWith(result)

\* the collecting step's return for what collect_events handed out
Release(events, result) == IF events # <<>> THEN StopEventWith(result) ELSE NoEvent

\* finalize for the URLContentEvent of url i
finalize ==
    /\ Running("WebScrapeWorkflow")
    /\ \E i \in 1..MaxTasks :
        /\ flow.tasks[i].pc = "returned"
        /\ LET state == flow.store
               c == CollectEvents(flow.buffer, flow.tasks[i].ev, state.processed_urls)
               r == Release(c.events, state.final_content)
           IN  flow' = [flow EXCEPT !.tasks[i] = [pc |-> "collected"],
                                    !.buffer = c.buffer,
                                    !.returns = Append(@, r),
                                    !.result = r]
    /\ UNCHANGED <<evars, wstate, config_file, request, hev, via, handled, emitted,
                   tool_ev, edit_call, turns, sends>>

(***************************************************************************)
(* EmailFlow                                                               *)
(***************************************************************************)
\* prepare_email: a sender outside the organisation ends the run from inside
\* the edit_state block; otherwise the client and the number of receivers are
\* stored, llm.acomplete answers or raises, and one PrepareEmail per receiver
\* is sent
prepare_email ==
    /\ Running("EmailFlow")
    /\ flow.pc = "start"
    /\ LET n == flow.start.n
           opened == EditState(flow, MaxTasks + 1)
       IN  IF ~flow.start.sender_internal
           THEN flow' = [CommitState(opened, opened.view) EXCEPT
                            !.pc = "running",
                            !.result = StopEventWith("not possible to send emails")]
           ELSE LET state == [opened.view EXCEPT !.email_client = "client",
                                                 !.email_num = n]
                    stored == [CommitState(opened, state) EXCEPT !.pc = "running"]
                IN  \E raised \in BOOLEAN :
                        flow' = IF raised THEN [stored EXCEPT !.failed = TRUE]
                                ELSE [stored EXCEPT !.tasks = FanOut(n)]
    /\ UNCHANGED <<evars, wstate, config_file, request, hev, via, handled, emitted,
                   tool_ev, edit_call, turns, sends>>

\* EmailStats.update
EmailStatsUpdate(stats, result) ==
    IF result THEN [stats EXCEPT !.success = @ + 1] ELSE [stats EXCEPT !.fail = @ + 1]

\* send_email for the PrepareEmail of receiver i: EmailClient.send answers
\* whether the receiver is inside the organisation
send_email ==
    /\ Running("EmailFlow")
    /\ \E i \in 1..MaxTasks, succ \in BOOLEAN :
        /\ flow.tasks[i].pc = "queued"
        /\ flow.store.email_client # "None"
        /\ flow' = [flow EXCEPT
                      !.stats = EmailStatsUpdate(@, succ),
                      !.tasks[i] = [pc |-> "returned",
                                    ev |-> [type |-> "SendEmail", success |-> succ]]]
    /\ UNCHANGED <<evars, wstate, config_file, request, hev, via, handled, emitted,
                   tool_ev, edit_call, turns, sends>>

\* collect_email_stats for the SendEmail of receiver i
collect_email_stats ==
    /\ Running("EmailFlow")
    /\ \E i \in 1..MaxTasks :
        /\ flow.tasks[i].pc = "returned"
        /\ LET state == flow.store
               c == CollectEvents(flow.buffer, flow.tasks[i].ev, state.email_num)
               r == Release(c.events, flow.stats)
           IN  flow' = [flow EXCEPT !.tasks[i] = [pc |-> "collected"],
                                    !.buffer = c.buffer,
                                    !.returns = Append(@, r),
                                    !.result = r]
    /\ UNCHANGED <<evars, wstate, config_file, request, hev, via, handled, emitted,
                   tool_ev, edit_call, turns, sends>>

\* WebScrapeWorkflow().run(urls=...) or EmailFlow().run(sender=..., receivers=...)
InitFlow ==
    /\ wstate = WorkflowState0
    /\ config_file = NoFile
    /\ request = NoEvent
    /\ hev = NoEvent
    /\ via = "none"
    /\ handled = {}
    /\ emitted = <<>>
    /\ tool_ev = NoEvent
    /\ edit_call = NoCall
    /\ turns = 0
    /\ sends = 0
    /\ estate = EditSessionState0
    /\ eev = NoEvent
    /\ calls = NoCalls
    /\ \E n \in 0..MaxTasks :
        \/ flow = Flow0("WebScrapeWorkflow", [n |-> n], URLState0)
        \/ \E internal \in BOOLEAN :
             flow = Flow0("EmailFlow", [n |-> n, sender_internal |-> internal],
                          EmailFlowState0)

NextFlow ==
    \/ process_urls
    \/ get_url_content
    \/ finalize
    \/ prepare_email
    \/ send_email
    \/ collect_email_stats

SpecFlow == InitFlow /\ [][NextFlow]_vars

(***************************************************************************)
(* Properties                                                              *)
(***************************************************************************)
\* max_iterations of the run in flight
RunMax == IF eev.type = "EditRequest" THEN eev.max_iterations ELSE estate.max_iterations

CyclesWithinBudget ==
    /\ estate.iteration <= RunMax
    /\ calls.propose <= RunMax
    /\ calls.verify <= RunMax
    /\ Len(estate.edit_history) <= RunMax
    /\ HasAttr(eev, "iteration") => eev.iteration <= RunMax
    /\ eev.type = "EditCompleted" => eev.total_iterations <= RunMax

\* C1: for every max_iterations M >= 1 and every behaviour of the Proposer and
\* the Verifier (answers, exceptions, invalid verdicts throughout), a run
\* reaches EditCompleted; it makes at most M propose/apply/validate cycles and
\* its iteration counter never exceeds M.
C1_TerminatesWithinBudget ==
    /\ []CyclesWithinBudget
    /\ <>(eev.type = "EditCompleted")

\* a run with the largest budget that used all of it although the Proposer failed
C1_Witness ==
    /\ eev.type = "EditCompleted"
    /\ eev.total_iterations = MaxIterations
    /\ estate.max_iterations = MaxIterations
    /\ calls.propose_raised

\* the Verifier answered, and answered is_valid = false, every time it was asked
AlwaysInvalid == calls.valid_verdicts = 0 /\ ~calls.verify_raised

\* C2: when the Verifier answers is_valid = false in every iteration, a run with
\* max_iterations = M makes exactly M propose/apply/validate cycles and ends
\* with EditCompleted, total_iterations = M and M edit_history entries.
C2_AlwaysInvalidUsesBudget ==
    (eev.type = "EditCompleted" /\ AlwaysInvalid) =>
        /\ eev.total_iterations = estate.max_iterations
        /\ Len(eev.edit_history) = estate.max_iterations
        /\ calls.propose = estate.max_iterations
        /\ calls.verify = estate.max_iterations

\* the largest budget: MaxIterations invalid verdicts under max_iterations = MaxIterations
C2_Witness ==
    /\ eev.type = "EditCompleted"
    /\ AlwaysInvalid
    /\ estate.max_iterations = MaxIterations
    /\ calls.verify = MaxIterations
    /\ Len(eev.edit_history) = MaxIterations

\* the tags the tag-specific steps test for
ExactTags ==
    {"folder_name_input", "load_workflow", "file_selection", "config_menu",
     "model_selection", "review_diff_conversational", "review_edit", "test_workflow"}

Claimed(tag) == tag \in ExactTags \/ StartsWithConfigEdit(tag)

\* the step that claims the tag
Claimant(tag) ==
    CASE tag = "folder_name_input" -> "handle_folder_name_input_step"
      [] tag = "load_workflow" -> "handle_load_workflow_input"
      [] tag = "file_selection" -> "handle_test_file_selection_input"
      [] tag = "config_menu" -> "handle_config_menu_input"
      [] tag = "model_selection" -> "handle_model_selection_input"
      [] tag = "review_diff_conversational" -> "handle_review_diff_input"
      [] tag = "review_edit" -> "handle_review_edit_input"
      [] tag = "test_workflow" -> "handle_test_workflow_input"
      [] OTHER -> "handle_config_edit_input"

\* the steps whose guard lets the event through
Acceptors(ev) == { step \in Steps : ~Ignores(step, ev) }

IsResponse == hev.type = "HumanResponseEvent"

\* C3: for a HumanResponse whose tag a specific handler claims, exactly one
\* step passes its guard, and it is the only step that acts on the event: when
\* the turn is over it alone has run and the turn has produced one event.
C3_ClaimedTagOneHandler ==
    (IsResponse /\ HasAttr(hev, "tag") /\ Claimed(GetAttr(hev, "tag", "None"))) =>
        /\ Acceptors(hev) = {Claimant(hev.tag)}
        /\ handled \subseteq {Claimant(hev.tag)}
        /\ TurnDone => (handled = {Claimant(hev.tag)} /\ Len(emitted) = 1)

\* the review prompt of an edit was answered through run_cli and handled
C3_Witness ==
    /\ sends = 0
    /\ IsResponse
    /\ via = "run_cli"
    /\ GetAttr(hev, "tag", "None") = "review_diff_conversational"
    /\ TurnDone
    /\ handled = {"handle_review_diff_input"}
    /\ Len(emitted) = 1

\* no tag, the empty tag or the placeholder "general"
GeneralTag(ev) == GetAttr(ev, "tag", "None") \in {"None", "", "general"}

EmittedTags ==
    {"config_menu", "config_edit_project_id", "config_edit_org_id",
     "config_edit_output_dir", "model_selection", "folder_name_input",
     "load_workflow", "file_selection", "test_workflow",
     "review_diff_conversational", "review_edit"}

IsTaggedRequest(ev) ==
    /\ ev.type = "InputRequiredEvent"
    /\ ~Falsy(GetAttr(ev, "tag", "None"))

\* C5: every tag on an InputRequired the engine emits is one of the eleven
\* listed tags and is let through by the guard of exactly one step, so that the
\* response run_cli builds for it is never left unhandled.
C5_EmittedTagsHandled ==
    /\ \A i \in DOMAIN emitted :
        IsTaggedRequest(emitted[i]) =>
            /\ emitted[i].tag \in EmittedTags
            /\ Cardinality(Acceptors(RunCliResponse(emitted[i], ""))) = 1
    /\ (IsResponse /\ via = "run_cli" /\ IsTaggedRequest(request) /\ TurnDone) =>
            Cardinality(handled) = 1

\* the engine asks for the final review of an edit
C5_Witness ==
    /\ sends = 0
    /\ Suspended
    /\ IsTaggedRequest(Pending)
    /\ Pending.tag = "review_edit"

\* C6 as stated: after setup, every HumanResponse the transport delivers leads
\* to exactly one outcome of the turn, a StopEvent or one InputRequired.
C6_OneOutcomePerTurn ==
    (IsResponse /\ via = "run_cli" /\ TurnDone) =>
        /\ Len(emitted) = 1
        /\ emitted[1].type \in {"StopEvent", "InputRequiredEvent"}

\* the Proposer, the Verifier or the context fetch failed in the edit of this turn
EditCapabilityFailed ==
    \/ calls.propose_raised
    \/ calls.verify_raised
    \/ GetAttr(edit_call, "context_failed", FALSE)

\* C7: the session emits a StopEvent only from the quit branch of the catch-all
\* step, and a turn in which the Proposer, the Verifier or the context fetch
\* failed ends with the session suspended on an InputRequired.
C7_EditFailuresKeepSession ==
    /\ \A i \in DOMAIN emitted :
        emitted[i].type = "StopEvent" =>
            /\ IsResponse
            /\ handled = {"handle_general_input"}
            /\ Lower(Strip(hev.response)) \in QuitCommands
            /\ calls = NoCalls
    /\ (EditCapabilityFailed /\ TurnDone) => Suspended

\* all three failed in one edit, and the session waits for the review
C7_Witness ==
    /\ sends = 0
    /\ Suspended
    /\ calls.propose_raised
    /\ calls.verify_raised
    /\ GetAttr(edit_call, "context_failed", FALSE)
    /\ GetAttr(Pending, "tag", "None") = "review_diff_conversational"

\* C8 as stated: an untagged or "general" response whose trimmed, lower-cased
\* text is quit, exit or bye ends the session with a StopEvent in every phase.
C8_QuitInEveryPhase ==
    (IsResponse /\ GeneralTag(hev) /\ Lower(Strip(hev.response)) \in QuitCommands
        /\ TurnDone) =>
            emitted = <<StopEvent>>

\* the fields an InputRequiredEvent carries besides its type and tag
AuxiliaryFields(ev) == DOMAIN ev \ {"type", "tag"}

\* C9: the HumanResponse run_cli sends for an InputRequired carries the
\* request's tag when that tag is non-empty and no tag otherwise, and every
\* auxiliary field of the request (available_files, base_directory,
\* default_folder_name) with the value the request had.
C9_RunCliEchoes ==
    (IsResponse /\ via = "run_cli") =>
        /\ request.type = "InputRequiredEvent"
        /\ IF ~Falsy(GetAttr(request, "tag", "None"))
           THEN GetAttr(hev, "tag", "None") = request.tag
           ELSE ~HasAttr(hev, "tag")
        /\ \A f \in AuxiliaryFields(request) :
            /\ f \in {"available_files", "base_directory", "default_folder_name"}
            /\ HasAttr(hev, f)
            /\ hev[f] = request[f]

\* a file selection was answered: the candidate files and their directory are back
C9_Witness ==
    /\ sends = 0
    /\ IsResponse
    /\ via = "run_cli"
    /\ GetAttr(hev, "tag", "None") = "file_selection"
    /\ GetAttr(hev, "available_files", <<>>) = <<"data_dir/sample.pdf">>
    /\ GetAttr(hev, "base_directory", "") = "data_dir"
    /\ request.available_files = hev.available_files

\* C10, for the tag folder_name_input: a HumanResponse with that tag sent while
\* no folder-name request awaits a reply ends its turn without an error.
C10_StaleFolderNameNoError ==
    (IsResponse /\ GetAttr(hev, "tag", "None") = "folder_name_input"
        /\ GetAttr(request, "tag", "None") # "folder_name_input" /\ TurnDone) =>
            \A i \in DOMAIN emitted : emitted[i].type # "Exception"

(***************************************************************************)
(* APPLY                                                                   *)
(***************************************************************************)
\* the working copy after the first k replacements, as their records tell it
RECURSIVE WorkingCopy(_, _, _)
WorkingCopy(code, changes, k) ==
    IF k = 0 THEN code
    ELSE LET w == WorkingCopy(code, changes, k - 1)
         IN  IF changes[k].success
             THEN ReplaceFirst(w, changes[k].old_text, changes[k].new_text)
             ELSE w

\* the record of a replacement that was not found
IsFailure(change) ==
    /\ ~change.success
    /\ HasAttr(change, "error")
    /\ change.error = "Text not found"

\* C11: in apply_diffs, a replacement that is not found does not end the batch:
\* a plan of K replacements yields exactly K records in plan order, each
\* replacement is looked up in the working copy left by those before it, a
\* replacement that is not found is recorded with success = false and an error,
\* and the step hands DiffsApplied with the successful changes to VALIDATE.
C11_FailedOpDoesNotAbort ==
    [][(eev.type = "DiffGenerated" /\ eev.diff_plan.diffs # <<>>) =>
        IF eev'.type # "DiffsApplied" THEN FALSE
        ELSE LET diffs == eev.diff_plan.diffs
                 code == estate.current_code
                 changes == eev'.applied_changes
             IN  /\ Len(changes) = Len(diffs)
                 /\ \A k \in 1..Len(diffs) :
                      /\ changes[k].old_text = diffs[k].old_text
                      /\ changes[k].new_text = diffs[k].new_text
                      /\ changes[k].success =
                            Contains(WorkingCopy(code, changes, k - 1), diffs[k].old_text)
                      /\ ~changes[k].success => IsFailure(changes[k])
                 /\ eev'.updated_code = WorkingCopy(code, changes, Len(diffs))
                 /\ eev'.iteration = eev.iteration]_vars

\* the first of two replacements was not found and the second changed the artifact
C11_Witness ==
    /\ eev.type = "DiffsApplied"
    /\ Len(eev.applied_changes) = 2
    /\ IsFailure(eev.applied_changes[1])
    /\ eev.applied_changes[2].success
    /\ eev.updated_code # edit_call.current_workflow

\* the positions at which t occurs in s
Occurrences(s, t) == { i \in 1..(Len(s) + 1) : OccursAt(s, t, i) }

\* C12: apply_diffs on a plan with one replacement: when old_text occurs in the
\* current code, its first occurrence, and nothing else, is replaced by
\* new_text and the record has success = true; when it does not occur, the
\* code is unchanged and the record has success = false with the error
\* 'Text not found'; in both cases the step hands DiffsApplied to VALIDATE.
C12_SingleOpFirstOccurrence ==
    [][(eev.type = "DiffGenerated" /\ Len(eev.diff_plan.diffs) = 1) =>
        IF eev'.type # "DiffsApplied" THEN FALSE
        ELSE LET diff == eev.diff_plan.diffs[1]
                 code == estate.current_code
                 occ == Occurrences(code, diff.old_text)
             IN  /\ Len(eev'.applied_changes) = 1
                 /\ IF occ # {}
                    THEN LET i == CHOOSE i \in occ : \A j \in occ : i <= j
                         IN  /\ eev'.updated_code =
                                    SubSeq(code, 1, i - 1) \o diff.new_text
                                        \o SubSeq(code, i + Len(diff.old_text), Len(code))
                             /\ eev'.applied_changes[1].success
                    ELSE /\ eev'.updated_code = code
                         /\ IsFailure(eev'.applied_changes[1])
                 /\ estate'.current_code = eev'.updated_code]_vars

\* "a" occurs twice in "aba": the one replacement a -> b changed the first only
C12_Witness ==
    /\ eev.type = "DiffsApplied"
    /\ edit_call.current_workflow = <<"a", "b", "a">>
    /\ Len(eev.applied_changes) = 1
    /\ eev.applied_changes[1] = AppliedChange(CodeDiff(<<"a">>, <<"b">>))
    /\ eev.updated_code = <<"b", "b", "a">>

(***************************************************************************)
(* Empty plans and failing capabilities                                    *)
(***************************************************************************)
EmptyPlanInFlight == eev.type = "DiffGenerated" /\ eev.diff_plan.diffs = <<>>

\* C13: for a plan without replacements APPLY returns the current artifact
\* unchanged with an empty list of records and leaves the store as it is;
\* VALIDATE then runs: it calls the Verifier once and appends the history entry
\* of the iteration, with no applied changes.
C13_EmptyPlanStillValidated ==
    /\ [][EmptyPlanInFlight =>
            /\ eev' = DiffsApplied(estate.current_code, <<>>, eev.iteration)
            /\ estate' = estate
            /\ calls' = calls]_vars
    /\ [][(eev.type = "DiffsApplied" /\ eev.applied_changes = <<>>) =>
            /\ eev'.type = "ValidationCompleted"
            /\ eev'.current_code = eev.updated_code
            /\ calls'.verify = calls.verify + 1
            /\ Len(estate'.edit_history) = Len(estate.edit_history) + 1
            /\ SubSeq(estate'.edit_history, 1, Len(estate.edit_history))
                    = estate.edit_history
            /\ LET entry == estate'.edit_history[Len(estate'.edit_history)]
               IN  /\ entry.iteration = eev.iteration
                   /\ entry.applied_changes = <<>>]_vars
    /\ (EmptyPlanInFlight ~> eev.type = "ValidationCompleted")

\* the Proposer answered an empty plan and the iteration was validated
C13_Witness ==
    /\ eev.type = "ValidationCompleted"
    /\ ~calls.propose_raised
    /\ calls.verify = 1
    /\ Len(estate.edit_history) = 1
    /\ estate.edit_history[1].applied_changes = <<>>
    /\ eev.current_code = estate.current_code

\* the records of APPLY in the one iteration of a completed run
RunChanges(completed) == completed.edit_history[1].applied_changes

\* two lists of records stem from one plan: the same replacements in the same order
SamePlan(c1, c2) ==
    /\ Len(c1) = Len(c2)
    /\ \A k \in 1..Len(c1) :
        /\ c1[k].old_text = c2[k].old_text
        /\ c1[k].new_text = c2[k].new_text
        /\ c1[k].reason = c2[k].reason

SecondRunCompleted ==
    /\ eev.type = "EditCompleted"
    /\ HasAttr(edit_call, "first")
    /\ edit_call.first # NoEvent

FirstOccurrence(s, t) ==
    CHOOSE i \in Occurrences(s, t) : \A j \in Occurrences(s, t) : i <= j

\* s with the characters from i to i + Len(old) - 1 replaced by new
Spliced(s, i, old, new) ==
    SubSeq(s, 1, i - 1) \o new \o SubSeq(s, i + Len(old), Len(s))

\* the two replacements overlap in code: the text the first one replaces and
\* the text the second one is meant for (its left-most match in code) share a
\* character, and the first one changes its text
Overlap(code, d1, d2) ==
    /\ d1.old_text # <<>>
    /\ d2.old_text # <<>>
    /\ d1.new_text # d1.old_text
    /\ Occurrences(code, d1.old_text) # {}
    /\ Occurrences(code, d2.old_text) # {}
    /\ LET i1 == FirstOccurrence(code, d1.old_text)
           i2 == FirstOccurrence(code, d2.old_text)
       IN  /\ i1 <= i2 + Len(d2.old_text) - 1
           /\ i2 <= i1 + Len(d1.old_text) - 1

OverlappingPlanInFlight ==
    /\ eev.type = "DiffGenerated"
    /\ Len(eev.diff_plan.diffs) = 2
    /\ Overlap(estate.current_code, eev.diff_plan.diffs[1], eev.diff_plan.diffs[2])

\* C15 as stated: when two replacements of one plan overlap, the second one
\* fails to find its old_text and is recorded as failed; the batch is not aborted.
C15_Original ==
    [][OverlappingPlanInFlight =>
        IF eev'.type # "DiffsApplied" THEN FALSE
        ELSE /\ Len(eev'.applied_changes) = 2
             /\ IsFailure(eev'.applied_changes[2])]_vars

\* C15 amended: when two replacements of one plan overlap, the second one is
\* looked up in the working copy as the first one left it: when its old_text
\* no longer occurs there it is recorded as failed (success = false, 'Text not
\* found') and the copy stays as the first one left it; when its old_text
\* still occurs there, its left-most occurrence is replaced and it is recorded
\* as successful.  In both cases the batch is not aborted: two records are
\* produced and the step returns DiffsApplied.
C15_Amended ==
    [][OverlappingPlanInFlight =>
        IF eev'.type # "DiffsApplied" THEN FALSE
        ELSE LET d1 == eev.diff_plan.diffs[1]
                 d2 == eev.diff_plan.diffs[2]
                 code == estate.current_code
                 after1 == Spliced(code, FirstOccurrence(code, d1.old_text),
                                   d1.old_text, d1.new_text)
             IN  /\ Len(eev'.applied_changes) = 2
                 /\ eev'.applied_changes[1].success
                 /\ IF Occurrences(after1, d2.old_text) = {}
                    THEN /\ IsFailure(eev'.applied_changes[2])
                         /\ eev'.updated_code = after1
                    ELSE /\ eev'.applied_changes[2].success
                         /\ eev'.updated_code =
                                Spliced(after1, FirstOccurrence(after1, d2.old_text),
                                        d2.old_text, d2.new_text)]_vars

\* "aab" with aa -> a and then ab -> b: the two overlap in the second
\* character, and the second one is found in what the first one left
C15_Witness ==
    /\ eev.type = "DiffsApplied"
    /\ edit_call.current_workflow = <<"a", "a", "b">>
    /\ eev.applied_changes = <<AppliedChange(CodeDiff(<<"a", "a">>, <<"a">>)),
                               AppliedChange(CodeDiff(<<"a", "b">>, <<"b">>))>>
    /\ eev.updated_code = <<"b">>

(***************************************************************************)
(* Failing capabilities                                                    *)
(***************************************************************************)
\* the step called the Proposer and the call raised
ProposerRaises == calls'.propose_raises = calls.propose_raises + 1

\* the plan _generate_diff_plan falls back to
ErrorPlan == DiffPlan(<<>>, "Error generating diffs")

ErrorPlanInFlight == eev.type = "DiffGenerated" /\ eev.diff_plan = ErrorPlan

\* the validity/budget rule of check_completion
NormalRule ==
    eev.type = "ValidationCompleted" =>
        IF eev.validation.is_valid \/ eev.iteration >= estate.max_iterations
        THEN /\ eev'.type = "EditCompleted"
             /\ eev'.total_iterations = eev.iteration
        ELSE /\ eev'.type = "DiffGenerated"
             /\ eev'.iteration = eev.iteration + 1

VerifierRaises == calls'.verify_raises = calls.verify_raises + 1

\* the verdict _validate_code falls back to
FallbackVerdict == ValidationResult(TRUE, <<"Validation error">>, <<>>)

FallbackVerdictInFlight ==
    eev.type = "ValidationCompleted" /\ eev.validation = FallbackVerdict

BudgetExhausted ==
    /\ eev.type = "ValidationCompleted"
    /\ ~eev.validation.is_valid
    /\ eev.iteration = estate.max_iterations

\* what EditCompleted carries besides its type
ResultFields == {"final_code", "edit_history", "total_iterations"}

\* C18 as stated: when the run ends by budget exhaustion, the terminal result
\* contains the best-effort artifact, the full edit history, the iteration
\* count and the remaining validation issues.
C18_Original ==
    [][BudgetExhausted =>
        /\ eev'.type = "EditCompleted"
        /\ eev'.final_code = eev.current_code
        /\ eev'.edit_history = estate.edit_history
        /\ eev'.total_iterations = eev.iteration
        /\ \E f \in DOMAIN eev' \ ({"type"} \cup ResultFields) :
                eev'[f] = eev.validation.issues_found]_vars

\* C18 amended: when the run ends by budget exhaustion, the terminal result
\* contains the best-effort artifact (the stored code after the last APPLY),
\* the full edit history (one entry per iteration) and the iteration count
\* (max_iterations), and nothing else: the remaining validation issues are
\* not part of it.
C18_Amended ==
    [][BudgetExhausted =>
        /\ eev'.type = "EditCompleted"
        /\ DOMAIN eev' = {"type"} \cup ResultFields
        /\ eev'.final_code = eev.current_code
        /\ eev'.final_code = estate.current_code
        /\ eev'.edit_history = estate.edit_history
        /\ Len(eev'.edit_history) = estate.max_iterations
        /\ \A k \in 1..Len(eev'.edit_history) : eev'.edit_history[k].iteration = k
        /\ eev'.total_iterations = estate.max_iterations
        /\ estate' = estate
        /\ calls' = calls]_vars

\* the largest budget was used up on invalid verdicts, the last iteration
\* having changed the artifact
C18_Witness ==
    /\ eev.type = "EditCompleted"
    /\ eev.total_iterations = MaxIterations
    /\ estate.max_iterations = MaxIterations
    /\ calls.valid_verdicts = 0
    /\ calls.verify_raises = 0
    /\ \E k \in DOMAIN eev.edit_history[MaxIterations].applied_changes :
            eev.edit_history[MaxIterations].applied_changes[k].success
    /\ DOMAIN eev = {"type"} \cup ResultFields

(***************************************************************************)
(* Order of the steps of a run                                             *)
(***************************************************************************)
\* the capability calls made when the run stands at its event in flight: the
\* Proposer was called once per iteration begun, the Verifier once per
\* iteration validated
CallsByPhase ==
    CASE eev.type = "EditRequest" ->
            calls.propose = 0 /\ calls.verify = 0
      [] eev.type \in {"DiffGenerated", "DiffsApplied"} ->
            calls.propose = eev.iteration /\ calls.verify = eev.iteration - 1
      [] eev.type = "ValidationCompleted" ->
            calls.propose = eev.iteration /\ calls.verify = eev.iteration
      [] eev.type = "EditCompleted" ->
            calls.propose = eev.total_iterations /\ calls.verify = eev.total_iterations
      [] OTHER -> TRUE

\* PROPOSE, APPLY, VALIDATE, completion check, in this order
StepOrder ==
    /\ eev.type = "EditRequest" =>
            eev'.type = "DiffGenerated" /\ eev'.iteration = 1
    /\ eev.type = "DiffGenerated" =>
            eev'.type = "DiffsApplied" /\ eev'.iteration = eev.iteration
    /\ eev.type = "DiffsApplied" =>
            eev'.type = "ValidationCompleted" /\ eev'.iteration = eev.iteration
    /\ eev.type = "ValidationCompleted" =>
            \/ eev'.type = "EditCompleted"
            \/ eev'.type = "DiffGenerated" /\ eev'.iteration = eev.iteration + 1
    /\ eev.type # "EditCompleted"

\* a step makes at most one capability call
OneCallPerStep ==
    (calls'.propose - calls.propose) + (calls'.verify - calls.verify) \in {0, 1}

\* C19: within one edit run the capability calls are made one at a time and
\* the steps follow the order PROPOSE, APPLY, VALIDATE, completion check in
\* each iteration; the PROPOSE of iteration k+1 is made only after the
\* VALIDATE of iteration k has returned.
C19_StepsSequential ==
    /\ []CallsByPhase
    /\ [][StepOrder /\ OneCallPerStep]_vars

\* the second PROPOSE has been made: the first VALIDATE is behind it
C19_Witness ==
    /\ eev.type = "DiffGenerated"
    /\ eev.iteration = 2
    /\ calls.propose = 2
    /\ calls.verify = 1
    /\ Len(estate.edit_history) = 1

\* the calls of the collecting step so far: the k-th call returned a StopEvent
\* exactly when k is the number of sub-tasks, and the collector holds every
\* earlier arrival until then
ReleasedOnLast ==
    LET n == flow.start.n
        arrivals == Len(flow.returns)
    IN  /\ arrivals <= n
        /\ \A k \in 1..arrivals :
              IF k = n THEN flow.returns[k].type = "StopEvent"
              ELSE flow.returns[k] = NoEvent
        /\ Len(flow.buffer) = IF arrivals < n THEN arrivals ELSE 0

\* C21: in EmailFlow and WebScrapeWorkflow with N >= 1 sub-tasks fanned out
\* from one StartEvent, the collecting step returns nothing on each of the
\* first N-1 result events, keeping them between its calls, and returns the
\* StopEvent on the N-th.
C21_StopOnNthResult == flow.start.n >= 1 => ReleasedOnLast

\* three receivers: the third call of collect_email_stats returned the StopEvent
C21_Witness ==
    /\ flow.template = "EmailFlow"
    /\ flow.start.n = 3
    /\ Len(flow.returns) = 3
    /\ flow.returns[1] = NoEvent
    /\ flow.returns[2] = NoEvent
    /\ flow.returns[3].type = "StopEvent"

\* the urls whose get_url_content has left its edit_state block
Committed == { i \in 1..MaxTasks : flow.tasks[i].pc \in {"returned", "collected"} }

\* the text holds one section for each url of the set and nothing else
HoldsSections(final_content, urls) ==
    /\ Len(final_content) = Cardinality(urls)
    /\ \A i \in urls : \E k \in DOMAIN final_content : final_content[k].url = i

EditWrites ==
    {"pending_workflow_edit", "edit_session_history", "edit_conversation_history",
     "handler_status_message"}

\* the sub-workflow has returned its EditCompleted to handle_edit_workflow
EditResultReceived == edit_call.active /\ eev.type = "EditCompleted"

\* C22: while handle_edit_workflow awaits its DiffEditingWorkflow no field of
\* WorkflowState changes; on the EditCompleted it writes pending_workflow_edit,
\* edit_session_history, edit_conversation_history and handler_status_message
\* and no other field, so current_workflow stays as it was.
C22_EditRunLeavesSessionState ==
    /\ [][edit_call.active /\ edit_call'.active => wstate' = wstate]_vars
    /\ [](EditResultReceived =>
            LET r == EditSucceeded(wstate, config_file, edit_call.edit_request, eev)
            IN  \A field \in DOMAIN wstate \ EditWrites :
                    r.state[field] = wstate[field])

\* an edit run has returned a text other than the active artifact, which is
\* pending while the active artifact is the one the run started from
C22_Witness ==
    /\ ~edit_call.active
    /\ "caller" \in DOMAIN edit_call
    /\ eev = NoEvent
    /\ ~NoCode(wstate.pending_workflow_edit)
    /\ wstate.pending_workflow_edit # wstate.current_workflow
    /\ wstate.current_workflow = GeneratedCode

\* the documentation file is missing and was not generated, or cannot be read
ContextUnavailable(env) == (~env.exists /\ ~env.generated) \/ ~env.readable

\* the context the edit run in flight was started with
RunContext == IF eev.type = "EditRequest" THEN eev.context_str ELSE estate.context_str

\* C23: load_context_files does not raise: when the documentation file is
\* missing and cannot be generated, or cannot be read, handle_edit_workflow
\* still starts its edit run, and the run's context is the text
\* "Error loading context files: ...".
C23_ContextFailureIsText ==
    ("context_env" \in DOMAIN edit_call /\ ContextUnavailable(edit_call.context_env)) =>
        /\ edit_call.started
        /\ edit_call.active => RunContext = <<"Error loading context files">>

\* the file is missing, and the run has applied a plan under the error text
C23_Witness ==
    /\ edit_call.active
    /\ ~edit_call.context_env.exists
    /\ eev.type = "DiffsApplied"
    /\ estate.context_str = <<"Error loading context files">>

\* the history has one entry per iteration 1..k, in order
OneEntryPerIteration(history, k) ==
    /\ Len(history) = k
    /\ \A j \in 1..k : history[j].iteration = j

\* C24: edit_history is append-only with one entry per iteration: START
\* leaves it empty with iteration = 1; when the completion check of iteration
\* k runs it has the entries of iterations 1..k in order; no step modifies
\* or removes an entry; total_iterations of the result is its length.
C24_HistoryAppendOnly ==
    /\ [][eev.type = "EditRequest" =>
            estate'.edit_history = <<>> /\ estate'.iteration = 1]_vars
    /\ [](eev.type = "ValidationCompleted" =>
            OneEntryPerIteration(estate.edit_history, eev.iteration))
    /\ [][/\ Len(estate'.edit_history) >= Len(estate.edit_history)
          /\ SubSeq(estate'.edit_history, 1, Len(estate.edit_history))
                = estate.edit_history]_vars
    /\ [](eev.type = "EditCompleted" =>
            /\ eev.edit_history = estate.edit_history
            /\ eev.total_iterations = Len(eev.edit_history))

\* a run of three iterations has ended with a history of three entries
C24_Witness ==
    /\ eev.type = "EditCompleted"
    /\ eev.total_iterations = 3
    /\ OneEntryPerIteration(eev.edit_history, 3)

\* execute_tools holds a tool call that it routes to handle_edit_workflow
EditToolCall ==
    /\ tool_ev.type = "ToolCallsEvent"
    /\ tool_ev.tool_calls[1].tool_name = "edit_workflow"

\* the handler returned at once with an untagged InputRequiredEvent, no run
\* started and no pending edit stored
ReturnedUntagged ==
    /\ emitted' = Append(emitted, InputRequiredEvent)
    /\ ~edit_call'.active
    /\ wstate'.pending_workflow_edit = wstate.pending_workflow_edit

\* C25: handle_edit_workflow returns an InputRequiredEvent and does not
\* raise.  Without a workflow to edit or with an empty request it returns an
\* untagged one at once; otherwise it starts the edit run, or an error makes
\* it return an untagged one; it returns the one tagged
\* review_diff_conversational exactly when the run has completed, and the
\* run's final code is then stored as pending_workflow_edit.
C25_EditReturnsInputRequired ==
    /\ [][EditToolCall /\ tool_ev' = NoEvent =>
            IF \/ NoCode(EditTarget(wstate))
               \/ tool_ev.tool_calls[1].tool_kwargs.edit_request = ""
            THEN ReturnedUntagged
            ELSE \/ edit_call'.active /\ emitted' = emitted
                 \/ ReturnedUntagged]_vars
    /\ [][edit_call.active /\ ~edit_call'.active =>
            /\ eev.type = "EditCompleted"
            /\ emitted' = Append(emitted,
                                 TaggedInputRequired("review_diff_conversational"))
            /\ wstate'.pending_workflow_edit = eev.final_code]_vars

\* an edit requested through the edit_workflow tool has completed and the
\* session waits at the diff review with the result pending
C25_Witness ==
    /\ Suspended
    /\ GetAttr(Pending, "tag", "None") = "review_diff_conversational"
    /\ GetAttr(edit_call, "caller", "none") = "execute_tools"
    /\ ~NoCode(wstate.pending_workflow_edit)

\* the subprocess of execute_workflow was started (or its environment was):
\* it raised, or it left its outcome as the status message
Ran(st, r) ==
    \/ r.result.type = "Exception"
    \/ /\ r.state.handler_status_message # st.handler_status_message
       /\ r.state.handler_status_message \in
            {"Successfully tested", "Workflow testing failed",
             "Workflow testing failed (venv)"}

\* the response under way answers a file selection / a path prompt
SelectionAnswered == hev.type = "HumanResponseEvent" /\ ~FileSelectionIgnores(hev)

PathAnswered == hev.type = "HumanResponseEvent" /\ ~TestWorkflowIgnores(hev)

\* the file_selection request for these files
SelectionAgain(available_files, base_directory) ==
    [type |-> "InputRequiredEvent", tag |-> "file_selection",
     available_files |-> available_files, base_directory |-> base_directory]

\* the typed selection is no path: it is left to the LLM's matching
LeftToMatching(user_input, base_directory) ==
    /\ Strip(user_input) # ""
    /\ ~Exists(user_input)
    /\ ~Exists(PathJoin(base_directory, user_input))

\* the selection names nothing to test: empty, unmatched, or not locatable
SelectionUnmet(user_input, available_files, base_directory, selected_file) ==
    \/ Strip(user_input) = ""
    \/ /\ LeftToMatching(user_input, base_directory)
       /\ \/ selected_file = "NO_MATCH"
          \/ \A i \in DOMAIN available_files :
                ~Matches(available_files[i], selected_file)

\* the path names nothing to test: nonexistent, or a directory without files
PathUnmet(path) ==
    \/ ~IsDir(path) /\ ~Exists(path)
    \/ IsDir(path) /\ get_test_file_suggestions(path) = <<>>

\* the path a typed selection is handed on as, when it is a path
TypedPath(user_input, base_directory) ==
    IF Exists(user_input) THEN user_input ELSE PathJoin(base_directory, user_input)

\* handle_test_workflow gets as far as handle_test_file_validation
ValidationReached(st, env, path) ==
    /\ ~NoCode(st.current_workflow)
    /\ ~Falsy(st.current_workflow_path)
    /\ env.wf_exists
    /\ path # ""

\* C26 as stated: a selection prompt that cannot be satisfied is answered by
\* a file_selection request with the same files and directory, a path prompt
\* that cannot be satisfied by a test_workflow request, and the workflow is
\* not run.
C26_SameDialogue ==
    /\ SelectionAnswered =>
         \A env \in TestEnvs, selected_file \in Selections :
            LET user_input == Strip(hev.response)
                available_files == GetAttr(hev, "available_files", <<>>)
                base_directory == GetAttr(hev, "base_directory", "")
                r == handle_test_file_selection(wstate, config_file, user_input,
                        available_files, base_directory, selected_file, env)
            IN  \/ SelectionUnmet(user_input, available_files, base_directory,
                                  selected_file)
                \/ /\ user_input # ""
                   /\ ~LeftToMatching(user_input, base_directory)
                   /\ PathUnmet(TypedPath(user_input, base_directory))
                => r.result = SelectionAgain(available_files, base_directory)
                   /\ ~Ran(wstate, r)
    /\ PathAnswered =>
         \A env \in TestEnvs :
            LET r == handle_test_workflow(wstate, config_file,
                                          Strip(hev.response), env)
            IN  Strip(hev.response) # "" /\ PathUnmet(Strip(hev.response))
                => r.result = TaggedInputRequired("test_workflow") /\ ~Ran(wstate, r)

\* C26: a selection that is empty, or that is no path and that the LLM does
\* not match or names a file that is not among the available ones, is
\* answered by a file_selection request with available_files and
\* base_directory unchanged; a path that reaches handle_test_file_validation,
\* from a path prompt or from a selection prompt, and that does not exist or
\* is a directory without suitable files, is answered by a test_workflow
\* request; the workflow is run in neither case.
C26_UnmetPromptAsksAgain ==
    /\ SelectionAnswered =>
         \A env \in TestEnvs, selected_file \in Selections :
            LET user_input == Strip(hev.response)
                available_files == GetAttr(hev, "available_files", <<>>)
                base_directory == GetAttr(hev, "base_directory", "")
                path == TypedPath(user_input, base_directory)
                r == handle_test_file_selection(wstate, config_file, user_input,
                        available_files, base_directory, selected_file, env)
            IN  /\ SelectionUnmet(user_input, available_files, base_directory,
                                  selected_file)
                   => r.result = SelectionAgain(available_files, base_directory)
                      /\ ~Ran(wstate, r)
                /\ /\ user_input # ""
                   /\ ~LeftToMatching(user_input, base_directory)
                   /\ ValidationReached(wstate, env, path)
                   /\ PathUnmet(path)
                   => r.result = TaggedInputRequired("test_workflow") /\ ~Ran(wstate, r)
    /\ PathAnswered =>
         \A env \in TestEnvs :
            LET path == Strip(hev.response)
                r == handle_test_workflow(wstate, config_file, path, env)
            IN  ValidationReached(wstate, env, path) /\ PathUnmet(path)
                => r.result = TaggedInputRequired("test_workflow") /\ ~Ran(wstate, r)

\* an empty directory typed at a file selection was answered by a path prompt
C26_Witness ==
    /\ Suspended
    /\ SelectionAnswered
    /\ Strip(hev.response) = "empty_dir"
    /\ "handle_test_file_selection_input" \in handled
    /\ Pending = TaggedInputRequired("test_workflow")

\* the status message a handler left in the state
StatusLeft(st) == ~Falsy(st.handler_status_message)

\* the last message of chat_history is the assistant's, with this content
LastAssistantMessage(st, content) ==
    /\ st.chat_history # <<>>
    /\ st.chat_history[Len(st.chat_history)] = ChatMessage("assistant", content)

\* C27: every handler_status_message set during a turn has been reset to None
\* when the turn's InputRequired is out, and a status message leaves the state
\* only as the assistant message appended to chat_history.
C27_StatusReachesHistory ==
    /\ [](Suspended => ~StatusLeft(wstate))
    /\ [][StatusLeft(wstate)
            /\ wstate'.handler_status_message # wstate.handler_status_message
          => LastAssistantMessage(wstate', wstate.handler_status_message)]_vars

\* a request made of these issues and these suggestions, and of nothing else
SynthesizedFrom(issues, suggestions) ==
    <<"Fix these issues", issues, "Suggestions", suggestions>>

\* the k-th call of the Proposer and of the Verifier in the run
Proposed(k) == calls.proposed[k]

Verified(k) == calls.verified[k]

\* C28: the Proposer's first call carries the user's edit request; its k-th
\* call, k >= 2, carries the request synthesized from the issues and
\* suggestions of the validation of iteration k-1 and the code iteration k-1
\* left; every call of the Verifier carries the original edit request.
C28_RequestsOfTheCalls ==
    /\ [](\A k \in DOMAIN calls.verified :
            /\ k \in DOMAIN calls.proposed
            /\ Verified(k).edit_request = Proposed(1).edit_request)
    /\ [](\A k \in DOMAIN calls.proposed :
            k >= 2 => Proposed(k).current_code = Verified(k - 1).code)
    /\ [][eev.type = "EditRequest" /\ eev'.type = "DiffGenerated" =>
            calls'.proposed = <<[current_code |-> eev.current_workflow,
                                 edit_request |-> eev.edit_request]>>]_vars
    /\ [][eev.type = "ValidationCompleted" /\ eev'.type = "DiffGenerated" =>
            /\ Len(calls'.proposed) = eev.iteration + 1
            /\ calls'.proposed[eev.iteration + 1] =
                 [current_code |-> eev.current_code,
                  edit_request |-> SynthesizedFrom(eev.validation.issues_found,
                                                   eev.validation.suggestions)]
            /\ eev.validation.issues_found # <<>>]_vars

\* a run of three iterations: the Proposer was asked three times, the last
\* two times to fix the issues found, and the Verifier three times
C28_Witness ==
    /\ Len(calls.proposed) = 3
    /\ Len(calls.verified) = 3
    /\ Proposed(2).edit_request # Proposed(1).edit_request
    /\ Proposed(3).current_code # Proposed(1).current_code

\* handle_review_edit_input takes the response under way
ReviewEditStep ==
    /\ "handle_review_edit_input" \notin handled
    /\ "handle_review_edit_input" \in handled'

\* handle_review_diff_input takes the response under way
ReviewDiffStep ==
    /\ "handle_review_diff_input" \notin handled
    /\ "handle_review_diff_input" \in handled'

\* the response is one of y / yes / save / ok
Approved == Lower(Strip(hev.response)) \in {"y", "yes", "save", "ok"}

PendingEditExists == ~NoCode(wstate.pending_workflow_edit)

\* no edit and no runbook is pending after the step
NothingPendingAfter ==
    /\ wstate'.pending_workflow_edit = None
    /\ wstate'.pending_runbook_edit = "None"

\* the pending edit becomes the active artifact on an approved review_edit
\* response with an edit pending; every other review_edit response, the diff
\* review and the edit run leave current_workflow as it is
CommitOnlyOnApproval ==
    /\ [][ReviewEditStep =>
            IF Approved /\ PendingEditExists
            THEN wstate'.current_workflow = wstate.pending_workflow_edit
            ELSE wstate'.current_workflow = wstate.current_workflow]_vars
    /\ [][ReviewDiffStep \/ edit_call.active =>
            wstate'.current_workflow = wstate.current_workflow]_vars

Present(code) == code # None /\ code # <<>>

\* C30: an edit run starts from pending_workflow_edit when there is one and
\* from current_workflow otherwise, and its result becomes the pending edit,
\* so that a refinement asked for at the diff review starts from the result
\* of the run before it; with neither artifact present handle_edit_workflow
\* starts no run, leaves the state as execute_tools handed it over and
\* returns an untagged InputRequiredEvent.
C30_EditStartsFromPending ==
    /\ [](edit_call.active /\ eev.type = "EditRequest" =>
            eev.current_workflow =
                IF Present(wstate.pending_workflow_edit)
                THEN wstate.pending_workflow_edit
                ELSE wstate.current_workflow)
    /\ [][edit_call.active /\ ~edit_call'.active /\ eev.type = "EditCompleted" =>
            wstate'.pending_workflow_edit = eev.final_code]_vars
    /\ [][/\ EditToolCall
          /\ tool_ev' = NoEvent
          /\ ~Present(wstate.pending_workflow_edit)
          /\ ~Present(wstate.current_workflow)
          => /\ ~edit_call'.active
             /\ eev' = eev
             /\ emitted' = Append(emitted, InputRequiredEvent)
             /\ wstate' = [wstate EXCEPT !.handler_status_message = "None"]]_vars

\* a refinement asked for at the diff review starts from the pending result
\* of the run before it, which differs from the active artifact
C30_Witness ==
    /\ edit_call.active
    /\ edit_call.caller = "handle_review_diff_input"
    /\ eev.type = "EditRequest"
    /\ Present(wstate.pending_workflow_edit)
    /\ wstate.pending_workflow_edit # wstate.current_workflow
    /\ eev.current_workflow = wstate.pending_workflow_edit

\* handle_general_input takes the response while the session is configuring
ConfiguringStep ==
    /\ "handle_general_input" \notin handled
    /\ "handle_general_input" \in handled'
    /\ wstate.app_state = "configuring"

\* the response is a well-formed UUID / an existing reference path
SuppliesUuid == Strip(hev.response) = "uuid"

SuppliesPath == Strip(hev.response) = "refs_dir"

\* C31: while the session is configuring, a response that is a valid UUID or
\* an existing reference path is answered with a prompt, and the one the
\* dialogue is waiting for brings the session one step nearer to 'ready' (the
\* project id is stored, then the path is stored and app_state is 'ready'),
\* so that a user who keeps supplying them reaches 'ready'.
C31_ConfiguringReachesReady ==
    /\ [][ConfiguringStep /\ (SuppliesUuid \/ SuppliesPath) =>
            emitted' = Append(emitted, InputRequiredEvent)]_vars
    /\ [][ConfiguringStep /\ wstate.config.project_id \in {"None", ""}
            /\ SuppliesUuid => wstate'.config.project_id = "uuid"]_vars
    /\ [][ConfiguringStep /\ wstate.config.project_id \notin {"None", ""}
            /\ SuppliesPath => wstate'.app_state = "ready"]_vars

\* C32: once setup has run, app_state = 'ready' implies that project_id and
\* organization_id of the config are both set.
C32_ReadyMeansConfigured ==
    wstate.app_state = "ready" =>
        /\ wstate.config.project_id \notin {"None", ""}
        /\ wstate.config.organization_id \notin {"None", ""}

\* handle_config_edit_input / handle_model_selection_input take the response
ConfigEditStep ==
    /\ "handle_config_edit_input" \notin handled
    /\ "handle_config_edit_input" \in handled'

ModelSelectionStep ==
    /\ "handle_model_selection_input" \notin handled
    /\ "handle_model_selection_input" \in handled'

\* the response to an id prompt is empty or not a well-formed UUID
InvalidId ==
    /\ hev.tag \in {"config_edit_project_id", "config_edit_org_id"}
    /\ Strip(hev.response) # "uuid"

\* the response to the model prompt is neither a listed choice nor 'cancel'
InvalidSelection ==
    Lower(Strip(hev.response)) \notin
        {"cancel", "1", "2", "3", "4", "5", "6", "7", "8", "9", "10"}

\* the tags the configuration menu issues
MenuEditTags ==
    {"config_edit_project_id", "config_edit_org_id", "config_edit_output_dir"}

\* C33 as stated: an empty or malformed response to config_edit_project_id or
\* config_edit_org_id leaves the stored config (in the store and on disk)
\* unchanged; every config_edit_* response is answered with a
\* config_menu-tagged InputRequired; an invalid model_selection response
\* leaves current_model and config unchanged and asks model_selection again.
C33_EveryEditAnsweredWithMenu ==
    /\ [][ConfigEditStep /\ InvalidId =>
            /\ wstate'.config = wstate.config
            /\ config_file' = config_file]_vars
    /\ [][ConfigEditStep =>
            emitted' = Append(emitted, TaggedInputRequired("config_menu"))]_vars
    /\ [][ModelSelectionStep /\ InvalidSelection =>
            /\ wstate'.current_model = wstate.current_model
            /\ wstate'.config = wstate.config
            /\ config_file' = config_file
            /\ emitted' = Append(emitted, TaggedInputRequired("model_selection"))]_vars

\* C33: an empty or malformed response to config_edit_project_id or
\* config_edit_org_id leaves the stored config (in the store and on disk)
\* unchanged; every response to one of the three tags the menu issues is
\* answered with a config_menu-tagged InputRequired, and a response carrying
\* any other config_edit_ tag changes nothing and is answered with the
\* untagged prompt; an invalid model_selection response leaves current_model
\* and config unchanged and asks model_selection again.
C33_InvalidEditsChangeNothing ==
    /\ [][ConfigEditStep /\ InvalidId =>
            /\ wstate'.config = wstate.config
            /\ config_file' = config_file]_vars
    /\ [][ConfigEditStep /\ hev.tag \in MenuEditTags =>
            emitted' = Append(emitted, TaggedInputRequired("config_menu"))]_vars
    /\ [][ConfigEditStep /\ hev.tag \notin MenuEditTags =>
            /\ wstate' = wstate
            /\ config_file' = config_file
            /\ emitted' = Append(emitted, InputRequiredEvent)]_vars
    /\ [][ModelSelectionStep /\ InvalidSelection =>
            /\ wstate'.current_model = wstate.current_model
            /\ wstate'.config = wstate.config
            /\ config_file' = config_file
            /\ emitted' = Append(emitted, TaggedInputRequired("model_selection"))]_vars

\* a malformed project id has been answered with the configuration menu
C33_Witness ==
    /\ "handle_config_edit_input" \in handled
    /\ hev.tag = "config_edit_project_id"
    /\ hev.response = "bad"
    /\ emitted = <<TaggedInputRequired("config_menu")>>

\* an invalid model choice has been answered with the model prompt
C33_WitnessModel ==
    /\ "handle_model_selection_input" \in handled
    /\ hev.response = "x"
    /\ emitted = <<TaggedInputRequired("model_selection")>>

\* an edit session ends: a review_edit response is approved with an edit
\* pending, or is a rejection, or the diff review is left with an edit pending
EditSessionEnds ==
    \/ /\ ReviewEditStep
       /\ \/ Approved /\ PendingEditExists
          \/ ~Approved
    \/ /\ ReviewDiffStep
       /\ PendingEditExists
       /\ wstate'.pending_workflow_edit = None
       /\ emitted' = Append(emitted, InputRequiredEvent)

\* C34: when an edit session ends (approval and save at review_edit,
\* rejection at review_edit, or exit at the diff review),
\* edit_conversation_history is empty afterwards.
C34_HistoryEmptyAfterSession ==
    [][EditSessionEnds => wstate'.edit_conversation_history = <<>>]_vars

(***************************************************************************)
(* The session under way with an edit pending: a workflow was generated    *)
(* from the request "hello", then a refinement "more" was sent under the   *)
(* diff-review tag and its edit run completed, so that the run's result is  *)
(* the pending edit and the diff-review prompt is the last event emitted.  *)
(***************************************************************************)
InitEdited ==
    /\ wstate = [WorkflowState0 EXCEPT
                    !.config = FullConfig,
                    !.app_state = "ready",
                    !.current_model = "gpt-4.1",
                    !.chat_history =
                        <<ChatMessage("user", "hello"),
                          ChatMessage("assistant", "Successfully generated workflow")>>,
                    !.edit_conversation_history =
                        <<ChatMessage("user", "more"),
                          ChatMessage("assistant", "I applied iterations")>>,
                    !.current_workflow = <<"a", "b">>,
                    !.pending_workflow = <<"a", "b">>,
                    !.pending_workflow_edit = <<"a", "b", "b">>,
                    !.pending_runbook = "runbook",
                    !.current_runbook = "runbook",
                    !.edit_session_history =
                        <<[request |-> <<"more">>, iteration |-> 1,
                           applied_changes |->
                               <<[old_text |-> <<"b", "b">>, new_text |-> <<"a">>,
                                  reason |-> "reason", success |-> FALSE,
                                  error |-> "Text not found"],
                                 [old_text |-> <<"a">>, new_text |-> <<"a", "b">>,
                                  reason |-> "reason", success |-> TRUE]>>,
                           result_preview |-> <<"a", "b", "b">>]>>,
                    !.handler_status_message = "Successfully edited workflow",
                    !.generation_task = "task",
                    !.generation_reference_path = "refs_dir"]
    /\ config_file = SavedFile(FullConfig)
    /\ request = [type |-> "InputRequiredEvent", tag |-> "folder_name_input",
                  default_folder_name |-> "task"]
    /\ hev = [type |-> "HumanResponseEvent", tag |-> "review_diff_conversational",
              response |-> "more"]
    /\ via = "send_event"
    /\ handled = {"handle_review_diff_input"}
    /\ emitted = <<TaggedInputRequired("review_diff_conversational")>>
    /\ tool_ev = NoEvent
    /\ edit_call = NoCall
    /\ turns = 1
    /\ sends = 0
    /\ flow = FlowIdle
    /\ estate = EditSessionState0
    /\ eev = NoEvent
    /\ calls = NoCalls

SpecEdited == InitEdited /\ [][NextReview]_vars

\* handle_load_workflow or handle_generate_workflow runs, from the
\* load_workflow prompt or as a tool of execute_tools, and replaces the
\* active artifact
WorkflowReplaced ==
    /\ \/ /\ "handle_load_workflow_input" \notin handled
          /\ "handle_load_workflow_input" \in handled'
       \/ /\ tool_ev.type = "ToolCallsEvent"
          /\ tool_ev' = NoEvent
          /\ tool_ev.tool_calls[1].tool_name \in {"load_workflow", "generate_workflow"}
    /\ wstate'.current_workflow # wstate.current_workflow

\* C35: whenever load_workflow or generate_workflow replaces
\* current_workflow, no pending edit of the previous workflow remains
\* (pending_workflow_edit is None).
C35_NoStalePendingEdit ==
    [][WorkflowReplaced => wstate'.pending_workflow_edit = None]_vars

\* a step that may reach execute_workflow runs: the test_workflow tool of
\* execute_tools, or the step behind the path or the file-selection prompt
TestStep ==
    \/ /\ tool_ev.type = "ToolCallsEvent"
       /\ tool_ev' = NoEvent
       /\ tool_ev.tool_calls[1].tool_name = "test_workflow"
    \/ /\ "handle_test_workflow_input" \notin handled
       /\ "handle_test_workflow_input" \in handled'
    \/ /\ "handle_test_file_selection_input" \notin handled
       /\ "handle_test_file_selection_input" \in handled'

\* C36: execute_workflow returns an InputRequired on every path, the one
\* where creating or running the subprocess raises included: the step that
\* runs it ends with an InputRequiredEvent emitted and no exception leaves
\* it.
C36_TestAlwaysPrompts ==
    [][TestStep =>
        /\ Len(emitted') = Len(emitted) + 1
        /\ emitted'[Len(emitted')].type = "InputRequiredEvent"]_vars

\* the event loop of a run takes every event in flight to the step that
\* accepts it: a step that stays enabled is taken
SpecFlowFair == SpecFlow /\ WF_vars(NextFlow)

\* the run has ended: with a StopEvent, or with the exception of a step
FlowStopped == flow.result.type = "StopEvent"

FlowRaised == flow.failed

\* C37: EmailFlow (with an allowed sender) and WebScrapeWorkflow reach a
\* StopEvent for every input list, the empty one included, unless a step
\* raises; no timeout is needed to end the run.
C37_FlowsReachStop == <>(FlowStopped \/ FlowRaised)

\* the records of iterations 1..j of a history, in order
RECURSIVE ChangesUpTo(_, _)
ChangesUpTo(history, j) ==
    IF j = 0 THEN <<>>
    ELSE ChangesUpTo(history, j - 1) \o history[j].applied_changes

\* the artifact the run was started on: the code of the first Proposer call
OriginalArtifact == calls.proposed[1].current_code

\* C38: EditCompleted.final_code is the original artifact with exactly the
\* successful replacements of iterations 1..k applied in order, each to the
\* first occurrence of its old_text in the working copy of that moment;
\* failed replacements, empty plans and Proposer failures contribute nothing;
\* and final_code is the current_code of the edit store at termination.
C38_FinalCodeIsReplay ==
    eev.type = "EditCompleted" =>
        LET changes == ChangesUpTo(eev.edit_history, Len(eev.edit_history))
        IN  /\ Len(eev.edit_history) = eev.total_iterations
            /\ eev.final_code = WorkingCopy(OriginalArtifact, changes, Len(changes))
            /\ eev.final_code = estate.current_code

\* a run of three iterations ended with replacements that were applied and
\* replacements that were not found, and with an artifact that differs from
\* the original
C38_Witness ==
    /\ eev.type = "EditCompleted"
    /\ eev.total_iterations = 3
    /\ eev.final_code # OriginalArtifact
    /\ LET changes == ChangesUpTo(eev.edit_history, Len(eev.edit_history))
       IN  /\ \E k \in DOMAIN changes : changes[k].success
           /\ \E k \in DOMAIN changes : ~changes[k].success
    /\ \E j \in DOMAIN eev.edit_history : eev.edit_history[j].applied_changes = <<>>

\* C39: in apply_diffs a replacement whose old_text is the empty text is
\* always found: it is recorded with success = true and without an error,
\* and its new_text is put at the very start of the working copy left by
\* the replacements before it.
C39_EmptyOldTextAlwaysFound ==
    [][(eev.type = "DiffGenerated" /\ eev.diff_plan.diffs # <<>>) =>
        IF eev'.type # "DiffsApplied" THEN FALSE
        ELSE LET diffs == eev.diff_plan.diffs
                 code == estate.current_code
                 changes == eev'.applied_changes
                 n == Len(diffs)
             IN  /\ Len(changes) = n
                 /\ \A k \in 1..n :
                      diffs[k].old_text = <<>> =>
                        /\ changes[k].success
                        /\ ~IsFailure(changes[k])
                        /\ changes[k].new_text = diffs[k].new_text
                        /\ WorkingCopy(code, changes, k) =
                              diffs[k].new_text \o WorkingCopy(code, changes, k - 1)
                 /\ diffs[n].old_text = <<>> =>
                        eev'.updated_code =
                            diffs[n].new_text \o WorkingCopy(code, changes, n - 1)]_vars

\* a replacement with an empty old_text was applied to a non-empty artifact
\* after a replacement that was not found: its new_text opens the result
C39_Witness ==
    /\ eev.type = "DiffsApplied"
    /\ Len(eev.applied_changes) = 2
    /\ ~eev.applied_changes[1].success
    /\ eev.applied_changes[2].old_text = <<>>
    /\ eev.applied_changes[2].new_text = <<"b">>
    /\ eev.applied_changes[2].success
    /\ edit_call.current_workflow = <<"a", "a">>
    /\ eev.updated_code = <<"b", "a", "a">>

====
